---- MODULE Spec2Model ----
(***************************************************************************)
(* Model of the Mamba mixer of megatron/core/ssm/mamba_mixer.py:           *)
(* construction (shard arithmetic and configuration checks), the inference *)
(* cache manager, the forward and step call paths with the collectives     *)
(* they issue, the causal convolution stage and the selective scan.        *)
(*                                                                         *)
(* Also modelled: the message protocol of the Llama-2 checkpoint loader    *)
(* (tools/checkpoint/loader_llama2.py), the barriers of the disk-backed    *)
(* BERT embedder (tools/bert_embedding/embed.py) and get_legal_seq_idxs of *)
(* the Retro dataset (tools/retro/pretraining/retro_dataset.py).           *)
(*                                                                         *)
(* The specifications of the module:                                       *)
(*   SpecCtor   Mamba.__init__ on bounded constructor arguments            *)
(*   Spec       calls on a constructed mixer and an inference session      *)
(*   SpecRanks  one forward call on every rank of a tensor-parallel group  *)
(*   SpecScan   the convolution stage and the scan as functions of streams *)
(*   SpecLoader the loader process and the messages it puts on its queue   *)
(*   SpecEmbed  the ranks of the embedder and their barriers               *)
(*   SpecLegal  get_legal_seq_idxs on a directory of neighbor files        *)
(***************************************************************************)
EXTENDS Integers, Sequences, FiniteSets, TLC

VARIABLES
    args,    \* SpecCtor: the constructor arguments of the last construction
    mixer,   \* the constructed Mamba object's fields, or the failed construction
    env,     \* config.sequence_parallel and which optional kernels were imported
    kv,      \* inference_params.key_value_memory_dict: key -> entry or Absent
    call,    \* the last call: operation, inputs, outcome, dict before the call
    coll,    \* the collectives the last call issued, in order
    inp,     \* SpecScan: the input streams and parameters
    res      \* SpecScan: the results computed from inp

vars == <<args, mixer, env, kv, call, coll, inp, res>>

\* layer_idx = None, a key outside the layer indices 1, 2, ...
None == 0 - 1
\* what the dict holds for a key it does not contain
Absent == [absent |-> TRUE]
Idle == [op |-> "none"]

----------------------------------------------------------------------------
(* Bounds of the model.                                                    *)

MaxDModel == 4
MaxHeadDim == 2
MaxWorld == 2
MaxARange == 2
MaxGroups == 2

Expands == {1, 2}
DStates == {1}
DConvs == {2}

----------------------------------------------------------------------------
(* Mamba.__init__                                                          *)

CtorArgs ==
    [d_model : 1..MaxDModel, expand : Expands, headdim : 1..MaxHeadDim,
     ngroups : 1..MaxGroups, p : 1..MaxWorld, bias : BOOLEAN,
     conv_bias : BOOLEAN, A_lo : 0..MaxARange, A_hi : 0..MaxARange,
     d_state : DStates, d_conv : DConvs]

\* line 81: self.d_inner = int(self.expand * self.d_model)
d_inner(a) == a.expand * a.d_model

\* line 85: self.nheads = self.d_inner // self.headdim
nheads(a) == d_inner(a) \div a.headdim

\* line 84: assert self.d_inner % self.headdim == 0
HeadCheck(a) == d_inner(a) % a.headdim = 0

\* A faulty variant of ShardChecks, for comparison: the ngroups assertion is missing
ShardChecks_NoGroups(a) ==
    /\ d_inner(a) % a.p = 0
    /\ nheads(a) % a.p = 0

\* lines 94-96: the three divisibility assertions on the world size
ShardChecks(a) ==
    /\ d_inner(a) % a.p = 0
    /\ a.ngroups % a.p = 0
    /\ nheads(a) % a.p = 0

\* line 97: assert (not bias)
BiasCheck(a) == ~a.bias

\* line 152: assert A_init_range[0] > 0 and A_init_range[1] >= A_init_range[0]
ARangeCheck(a) == a.A_lo > 0 /\ a.A_hi >= a.A_lo

\* lines 116-127: nn.Conv1d(bias=conv_bias) leaves conv1d.bias = None when
\* conv_bias is False, and setattr(None, 'tensor_model_parallel', True) raises.
ConvBiasTagged(a) == a.conv_bias

\* The line at which __init__ raises, 0 when it returns.
CtorFailLine(a) ==
    IF ~HeadCheck(a) THEN 84
    ELSE IF ~ShardChecks(a)
         THEN (IF d_inner(a) % a.p # 0 THEN 94
               ELSE IF a.ngroups % a.p # 0 THEN 95 ELSE 96)
    ELSE IF a.bias THEN 97
    ELSE IF ~ConvBiasTagged(a) THEN 127
    ELSE IF ~ARangeCheck(a) THEN 152
    ELSE 0

\* The attributes __init__ sets on the parameters it creates:
\*   126-127  conv1d.weight, conv1d.bias: tensor_model_parallel
\*   145-150  dt_bias: _no_reinit, _no_weight_decay
\*   156-157  A_log: _no_weight_decay, tensor_model_parallel
\*   162-163  D: _no_weight_decay, tensor_model_parallel
ParamTags ==
    [conv1d_weight |-> {"tensor_model_parallel"},
     conv1d_bias |-> {"tensor_model_parallel"},
     dt_bias |-> {"_no_reinit", "_no_weight_decay"},
     A_log |-> {"_no_weight_decay", "tensor_model_parallel"},
     D |-> {"_no_weight_decay", "tensor_model_parallel"}]

\* The object __init__ builds (lines 76-180), or the failure.
Mamba(a) ==
    IF CtorFailLine(a) # 0
    THEN [ok |-> FALSE, err |-> CtorFailLine(a)]
    ELSE [ok |-> TRUE, err |-> 0,
          d_model |-> a.d_model, d_state |-> a.d_state, d_conv |-> a.d_conv,
          d_inner |-> d_inner(a), headdim |-> a.headdim,
          ngroups |-> a.ngroups, nheads |-> nheads(a),
          tensor_model_parallel_size |-> a.p,
          d_inner_local |-> d_inner(a) \div a.p,
          ngroups_local |-> a.ngroups \div a.p,
          nheads_local |-> nheads(a) \div a.p,
          conv_bias |-> a.conv_bias,
          tags |-> ParamTags]

\* No construction has run yet.
NoArgs == [d_model |-> 0]
Unbuilt == [ok |-> FALSE, err |-> 0 - 1]
NoEnv == [sequence_parallel |-> FALSE, has_causal_conv1d |-> FALSE]
NoKv == <<>>
NoInp == [kind |-> "none"]
NoRes == [kind |-> "none"]

InitCtor ==
    /\ args = NoArgs
    /\ mixer = Unbuilt
    /\ env = NoEnv
    /\ kv = NoKv
    /\ call = Idle
    /\ coll = <<>>
    /\ inp = NoInp
    /\ res = NoRes

\* The call of Mamba(config, d_model, ...) under a world size a.p.
Construct ==
    \E a \in CtorArgs :
        /\ args = NoArgs
        /\ args' = a
        /\ mixer' = Mamba(a)
        /\ UNCHANGED <<env, kv, call, coll, inp, res>>

NextCtor == Construct

SpecCtor == InitCtor /\ [][NextCtor]_vars

\* The configuration checks the constructor documents (lines 84, 94-97, 152).
AllChecks(a) == HeadCheck(a) /\ ShardChecks(a) /\ BiasCheck(a) /\ ARangeCheck(a)

\* C1: construction succeeds if and only if every configuration check holds
\* (d_inner divisible by headdim; d_inner, ngroups, nheads divisible by p;
\* bias False; A_init_range lo > 0 and hi >= lo), and then the local widths
\* are the unsharded widths divided by p.
C1_ConstructIffChecks ==
    args # NoArgs =>
        /\ mixer.ok <=> AllChecks(args)
        /\ mixer.ok =>
              /\ mixer.d_inner_local = d_inner(args) \div args.p
              /\ mixer.ngroups_local = args.ngroups \div args.p
              /\ mixer.nheads_local = nheads(args) \div args.p

\* C2: after a successful construction the local widths sum to the unsharded
\* widths over the p shards, and nheads_local * headdim = d_inner_local.
C2_LocalWidthsSum ==
    (args # NoArgs /\ mixer.ok) =>
        /\ args.p * mixer.d_inner_local = mixer.d_inner
        /\ args.p * mixer.nheads_local = mixer.nheads
        /\ args.p * mixer.ngroups_local = mixer.ngroups
        /\ mixer.nheads_local * mixer.headdim = mixer.d_inner_local

\* C2 witness: a mixer built on two shards with two groups and two heads.
C2_Witness ==
    /\ args # NoArgs
    /\ mixer.ok
    /\ args.p = 2
    /\ mixer.ngroups = 2
    /\ mixer.nheads_local >= 1
    /\ mixer.headdim = 2

----------------------------------------------------------------------------
(* Tensors.  A tensor of shape (b, c, w) is a tuple of b tuples of c tuples *)
(* of w integers; a matrix is a tuple of rows.                              *)

Zeros(b, c, w) == [i \in 1..b |-> [j \in 1..c |-> [k \in 1..w |-> 0]]]

\* Content a session owner may hold in a buffer between calls: position k
\* of every window holds k, so that a shift of the window is visible.
Ramp(b, c, w) == [i \in 1..b |-> [j \in 1..c |-> [k \in 1..w |-> k]]]

Shape(t) == <<Len(t), Len(t[1]), Len(t[1][1])>>

IsZero(t) == \A i \in DOMAIN t : \A j \in DOMAIN t[i] : \A k \in DOMAIN t[i][j] :
                 t[i][j][k] = 0

RECURSIVE SumTo(_, _)
SumTo(f, n) == IF n = 0 THEN 0 ELSE f[n] + SumTo(f, n - 1)

\* u . v for two vectors of one length
Dot(u, v) == SumTo([i \in DOMAIN u |-> u[i] * v[i]], Len(u))

\* ceil(n / 2)
CeilHalf(n) == (n + 1) \div 2

----------------------------------------------------------------------------
(* The attributes of a constructed mixer.                                  *)

\* The names __init__ binds on self (lines 75-180).  step and the cache
\* manager also read self.x_proj, self.dt_rank and self.dt_proj, which no
\* line of __init__ binds: reading one raises AttributeError.
MixerAttrs ==
    {"config", "d_model", "d_state", "d_conv", "conv_init", "expand",
     "d_inner", "headdim", "ngroups", "nheads", "D_has_hdim", "rmsnorm",
     "norm_before_gate", "chunk_size", "use_fast_path", "layer_idx",
     "tensor_model_parallel_size", "d_inner_local", "ngroups_local",
     "nheads_local", "in_proj", "conv1d", "activation", "act", "dt_bias",
     "A_log", "D", "norm", "out_proj"}

HasAttr(name) == name \in MixerAttrs

\* line 114: conv_dim = d_inner_local + 2 * ngroups_local * d_state
conv_dim(m) == m.d_inner_local + 2 * m.ngroups_local * m.d_state

\* lines 105-112: the rows of in_proj.weight held by one shard
\* (ColumnParallelLinear splits the output width over the p shards).
in_proj_width(m) ==
    (m.d_inner * 2 + 2 * m.ngroups * m.d_state + m.nheads)
        \div m.tensor_model_parallel_size

\* A value of the parameter in_proj.weight (in_proj_width x d_model): row j
\* holds j in every column, so the streams of the projection differ.
in_proj_weight(m) ==
    [j \in 1..in_proj_width(m) |-> [i \in 1..m.d_model |-> j]]

\* hidden_states of shape (L, B, d_model) holding the token value v.
Hidden(L, B, m, v) == [l \in 1..L |-> [b \in 1..B |-> [i \in 1..m.d_model |-> v]]]

\* lines 211-213: torch.split(xz, [d_inner_local, d_inner_local + 2 *
\* ngroups_local * d_state, nheads_local]), the widths of z, xBC and dt
ForwardSplit(m) ==
    <<m.d_inner_local, m.d_inner_local + 2 * m.ngroups_local * m.d_state,
      m.nheads_local>>

\* lines 241-242: torch.split(xBC, [d_inner_local, ngroups_local * d_state,
\* ngroups_local * d_state]), the widths of x, B and C
ConvSplit(m) ==
    <<m.d_inner_local, m.ngroups_local * m.d_state, m.ngroups_local * m.d_state>>

\* line 364: x, z = xz.chunk(2, dim=-1), two chunks of ceil(W / 2) and the
\* remaining columns
StepSplit(m) ==
    <<CeilHalf(in_proj_width(m)), in_proj_width(m) - CeilHalf(in_proj_width(m))>>

\* C14: the per-shard width of the input projection is 2 * d_inner_local +
\* 2 * ngroups_local * d_state + nheads_local; the split into z, xBC and dt
\* covers it exactly, the split of the convolution output into x, B and C
\* covers xBC exactly, and the stepwise path splits the projection as the
\* chunked path does.
C14_ProjectionSplit ==
    (args # NoArgs /\ mixer.ok) =>
        /\ in_proj_width(mixer) = 2 * mixer.d_inner_local
                                   + 2 * mixer.ngroups_local * mixer.d_state
                                   + mixer.nheads_local
        /\ SumTo(ForwardSplit(mixer), 3) = in_proj_width(mixer)
        /\ SumTo(ConvSplit(mixer), 3) = ForwardSplit(mixer)[2]
        /\ ForwardSplit(mixer)[2] = conv_dim(mixer)
        /\ StepSplit(mixer) = ForwardSplit(mixer)

\* The parameters of a constructed mixer that hold one shard's slice of a
\* per-head or per-channel vector (shapes nheads_local, d_inner_local,
\* conv_dim): lines 116-125, 144, 155, 160-161.
ShardedParams == {"conv1d_weight", "conv1d_bias", "dt_bias", "A_log", "D"}

\* C15: after construction each of dt_bias, A_log and D carries both
\* _no_weight_decay and tensor_model_parallel, and no sharded parameter of
\* the mixer is without the tensor_model_parallel tag.
C15_ParameterTags ==
    (args # NoArgs /\ mixer.ok) =>
        /\ \A q \in {"dt_bias", "A_log", "D"} :
              {"_no_weight_decay", "tensor_model_parallel"} \subseteq mixer.tags[q]
        /\ \A q \in ShardedParams : "tensor_model_parallel" \in mixer.tags[q]

----------------------------------------------------------------------------
(* Mamba.allocate_inference_cache and Mamba._get_states_from_cache         *)

\* lines 415-426.  With dtype None line 421 reads self.dt_proj.
allocate_inference_cache(m, batch_size, dtype_given) ==
    IF ~dtype_given /\ ~HasAttr("dt_proj")
    THEN [ok |-> FALSE, err |-> 421]
    ELSE [ok |-> TRUE, err |-> 0,
          conv |-> Zeros(batch_size, m.d_inner_local, m.d_conv),
          ssm |-> Zeros(batch_size, m.d_inner_local, m.d_state)]

ZerosLike(t) == Zeros(Len(t), Len(t[1]), Len(t[1][1]))

\* A faulty variant of GetStatesFromCache, for comparison: the assertion on layer_idx is missing
GetStatesFromCache_NoAssert(m, layer_idx, d, batch_size, initialize_states) ==
    IF d[layer_idx] = Absent
    THEN IF HasAttr("dt_proj")
         THEN [ok |-> TRUE, err |-> 0, created |-> TRUE,
               kv |-> [d EXCEPT ![layer_idx] =
                         [conv |-> Zeros(batch_size, m.d_inner_local, m.d_conv),
                          ssm |-> Zeros(batch_size, m.d_inner_local, m.d_state),
                          id |-> [by |-> "mixer", key |-> layer_idx]]]]
         ELSE [ok |-> FALSE, err |-> 442, created |-> FALSE, kv |-> d]
    ELSE [ok |-> TRUE, err |-> 0, created |-> FALSE,
          kv |-> IF initialize_states
                 THEN [d EXCEPT ![layer_idx].conv = ZerosLike(@),
                                ![layer_idx].ssm = ZerosLike(@)]
                 ELSE d]

\* A faulty variant of GetStatesFromCache, for comparison: an entry whose
\* batch dimension differs from batch_size is replaced by a new zero pair
GetStatesFromCache_Realloc(m, layer_idx, d, batch_size, initialize_states) ==
    IF layer_idx = None
    THEN [ok |-> FALSE, err |-> 429, created |-> FALSE, kv |-> d]
    ELSE IF d[layer_idx] = Absent
    THEN [ok |-> FALSE, err |-> 442, created |-> FALSE, kv |-> d]
    ELSE IF Len(d[layer_idx].conv) # batch_size
    THEN [ok |-> TRUE, err |-> 0, created |-> TRUE,
          kv |-> [d EXCEPT ![layer_idx] =
                    [conv |-> Zeros(batch_size, m.d_inner_local, m.d_conv),
                     ssm |-> Zeros(batch_size, m.d_inner_local, m.d_state),
                     id |-> [by |-> "mixer", key |-> layer_idx]]]]
    ELSE [ok |-> TRUE, err |-> 0, created |-> FALSE,
          kv |-> IF initialize_states
                 THEN [d EXCEPT ![layer_idx].conv = ZerosLike(@),
                                ![layer_idx].ssm = ZerosLike(@)]
                 ELSE d]

\* A faulty variant of GetStatesFromCache, for comparison: initialize_states
\* zeroes the buffers of every entry of the dict
GetStatesFromCache_ZeroAll(m, layer_idx, d, batch_size, initialize_states) ==
    IF layer_idx = None
    THEN [ok |-> FALSE, err |-> 429, created |-> FALSE, kv |-> d]
    ELSE IF d[layer_idx] = Absent
    THEN [ok |-> FALSE, err |-> 442, created |-> FALSE, kv |-> d]
    ELSE [ok |-> TRUE, err |-> 0, created |-> FALSE,
          kv |-> IF initialize_states
                 THEN [k \in DOMAIN d |->
                         IF d[k] = Absent THEN Absent
                         ELSE [d[k] EXCEPT !.conv = ZerosLike(@),
                                           !.ssm = ZerosLike(@)]]
                 ELSE d]

\* lines 428-452.  The result names the dict after the call; the pair the
\* call returns is the entry kv[layer_idx] itself (the same tensors).
\*   429  assert self.layer_idx is not None
\*   431  conv_state = torch.zeros(...)
\*   438  ssm_state = torch.zeros(..., device=self.dt_proj.weight.device, ...)
\*        reads self.dt_proj while building the arguments, before line 445
\*        stores the pair
\*   447  the stored pair; 450-451 zero it in place if initialize_states
GetStatesFromCache(m, layer_idx, d, batch_size, initialize_states) ==
    IF layer_idx = None
    THEN [ok |-> FALSE, err |-> 429, created |-> FALSE, kv |-> d]
    ELSE IF d[layer_idx] = Absent
    THEN IF HasAttr("dt_proj")
         THEN [ok |-> TRUE, err |-> 0, created |-> TRUE,
               kv |-> [d EXCEPT ![layer_idx] =
                         [conv |-> Zeros(batch_size, m.d_inner_local, m.d_conv),
                          ssm |-> Zeros(batch_size, m.d_inner_local, m.d_state),
                          id |-> [by |-> "mixer", key |-> layer_idx]]]]
         ELSE [ok |-> FALSE, err |-> 442, created |-> FALSE, kv |-> d]
    ELSE [ok |-> TRUE, err |-> 0, created |-> FALSE,
          kv |-> IF initialize_states
                 THEN [d EXCEPT ![layer_idx].conv = ZerosLike(@),
                                ![layer_idx].ssm = ZerosLike(@)]
                 ELSE d]

----------------------------------------------------------------------------
(* Mamba.step                                                              *)

\* torch.roll(conv_state, shifts=-1, dims=-1): position k takes the value of
\* position k + 1, the last position takes the first.
Roll(t) ==
    [i \in DOMAIN t |-> [j \in DOMAIN t[i] |->
        [k \in DOMAIN t[i][j] |-> t[i][j][(k % Len(t[i][j])) + 1]]]]

\* Whether a size n broadcasts against a size target (equal, or 1).
Bcast(n, target) == n = target \/ n = 1

\* conv_state[:, :, -1] = x, with x of shape (Bx, Cx) broadcast over (B, C)
WriteLast(t, x) ==
    [i \in DOMAIN t |-> [j \in DOMAIN t[i] |->
        [k \in DOMAIN t[i][j] |->
            IF k = Len(t[i][j])
            THEN x[IF Len(x) = 1 THEN 1 ELSE i][IF Len(x[1]) = 1 THEN 1 ELSE j]
            ELSE t[i][j][k]]]]

\* lines 358-364: xz = hidden_states.squeeze(0) @ in_proj.weight.t(), and the
\* first of the two chunks of xz.chunk(2, dim=-1), of width ceil(W / 2).
StepX(m, hidden_states) ==
    [b \in DOMAIN hidden_states[1] |->
        [j \in 1..CeilHalf(in_proj_width(m)) |->
            Dot(hidden_states[1][b], in_proj_weight(m)[j])]]

\* lines 367-381, the convolution step on conv_state, up to line 384.
\*   reference path (causal_conv1d_update is None):
\*     368  conv_state.copy_(torch.roll(conv_state, shifts=-1, dims=-1))
\*     369  conv_state[:, :, -1] = x          raises unless x broadcasts
\*     370  conv_state * weight (conv_dim, d_conv)  raises unless it broadcasts
\*   fused path: causal_conv1d_update checks the shapes of x, conv_state and
\*     weight against each other before it touches conv_state.
\*   384  x @ self.x_proj.weight.t()          self.x_proj is never bound
StepConv(m, e, x, conv_state) ==
    LET sh == Shape(conv_state)
        fits == Bcast(Len(x), sh[1]) /\ Bcast(Len(x[1]), sh[2])
        mult == /\ sh[2] = conv_dim(m) \/ sh[2] = 1 \/ conv_dim(m) = 1
                /\ sh[3] = m.d_conv \/ sh[3] = 1 \/ m.d_conv = 1
        same == /\ Len(x) = sh[1] /\ Len(x[1]) = sh[2]
                /\ sh[2] = conv_dim(m) /\ sh[3] = m.d_conv
    IN  IF ~e.has_causal_conv1d
        THEN IF ~fits
             THEN [err |-> 369, conv |-> Roll(conv_state)]
             ELSE IF ~mult
             THEN [err |-> 370, conv |-> WriteLast(Roll(conv_state), x)]
             ELSE IF ~HasAttr("x_proj")
             THEN [err |-> 384, conv |-> WriteLast(Roll(conv_state), x)]
             ELSE [err |-> 0, conv |-> WriteLast(Roll(conv_state), x)]
        ELSE IF ~same
             THEN [err |-> 375, conv |-> conv_state]
             ELSE IF ~HasAttr("x_proj")
             THEN [err |-> 384, conv |-> WriteLast(Roll(conv_state), x)]
             ELSE [err |-> 0, conv |-> WriteLast(Roll(conv_state), x)]

\* A faulty variant of StepCall, for comparison: the length assertion of line 355 is missing
StepCall_NoAssert(m, e, hidden_states, conv_state, ssm_state) ==
    LET c == StepConv(m, e, StepX(m, hidden_states), conv_state)
    IN  [ok |-> FALSE, err |-> IF c.err = 0 THEN 387 ELSE c.err,
         conv |-> c.conv, ssm |-> ssm_state,
         coll |-> IF c.err = 0
                  THEN <<"reduce_from_tensor_model_parallel_region">>
                  ELSE <<>>]

\* lines 353-413: step(hidden_states, conv_state, ssm_state).  The result
\* names the two buffers after the call (they are updated in place).
\*   355  assert hidden_states.shape[0] == 1
\*   387  self.dt_rank, 390 self.dt_proj: never bound either, so no call
\*        reaches the state update of line 401 or the reduction of line 412
StepCall(m, e, hidden_states, conv_state, ssm_state) ==
    IF Len(hidden_states) # 1
    THEN [ok |-> FALSE, err |-> 355, conv |-> conv_state, ssm |-> ssm_state,
          coll |-> <<>>]
    ELSE LET c == StepConv(m, e, StepX(m, hidden_states), conv_state)
         IN  [ok |-> FALSE, err |-> IF c.err = 0 THEN 387 ELSE c.err,
              conv |-> c.conv, ssm |-> ssm_state,
         coll |-> IF c.err = 0
                  THEN <<"reduce_from_tensor_model_parallel_region">>
                  ELSE <<>>]

----------------------------------------------------------------------------
(* Mamba.forward                                                           *)

\* lines 209-217: xz = hidden_states @ in_proj.weight.t(), the stream xBC of
\* torch.split(xz, [d_inner_local, conv_dim, nheads_local]) (the conv_dim
\* columns after the first d_inner_local), rearranged "l b d -> b d l".
ForwardXBC(m, hidden_states) ==
    [b \in DOMAIN hidden_states[1] |->
        [c \in 1..conv_dim(m) |->
            [l \in DOMAIN hidden_states |->
                Dot(hidden_states[l][b], in_proj_weight(m)[m.d_inner_local + c])]]]

\* line 223: F.pad(t, (width - t.shape[-1], 0)) on a (B, C, L) tensor: the
\* last `width` positions of the last axis, zeros on the left when L < width.
FPadLeft(t, width) ==
    [b \in DOMAIN t |-> [c \in DOMAIN t[b] |->
        [k \in 1..width |->
            LET l == Len(t[b][c]) - width + k
            IN  IF l >= 1 THEN t[b][c][l] ELSE 0]]]

\* gather_from_sequence_parallel_region on a (L / p, B, D) slice: the p
\* slices of the group concatenated along the sequence axis.
GatherShape(sh, p) == <<sh[1] * p, sh[2], sh[3]>>

\* reduce_scatter_to_sequence_parallel_region on a (L, B, D) partial result:
\* the sum over the group, of which each shard keeps its L / p positions.
ReduceScatterShape(sh, p) == <<sh[1] \div p, sh[2], sh[3]>>

\* t @ weight.t() for a weight of `rows` rows: the last axis becomes rows
MatmulShape(sh, rows) == <<sh[1], sh[2], rows>>

\* The shape of out_full (line 277): the entry collective (204-208), in_proj
\* (209), the streams through convolution, scan and norm back to a
\* (l, b, d_inner_local) tensor y (211-274), and out_proj.
OutFullShape(m, e, hidden_states) ==
    LET entered == IF e.sequence_parallel
                   THEN GatherShape(Shape(hidden_states),
                                    m.tensor_model_parallel_size)
                   ELSE Shape(hidden_states)
        xz == MatmulShape(entered, in_proj_width(m))
        y == <<xz[1], xz[2], m.d_inner_local>>
    IN  MatmulShape(y, m.d_model)

\* A faulty variant of ForwardChunked, for comparison: out_full is returned
\* as it is, without the exit collective
ForwardChunked_NoReduce(m, e, hidden_states, d) ==
    [ok |-> TRUE, err |-> 0, kv |-> d, path |-> "chunked", wrote |-> {},
     coll |-> IF e.sequence_parallel
              THEN <<"gather_from_sequence_parallel_region">>
              ELSE <<"copy_to_tensor_model_parallel_region">>,
     out_shape |-> OutFullShape(m, e, hidden_states)]

\* A faulty variant of ForwardChunked, for comparison: the exit collective is
\* the all-reduce whatever sequence_parallel is
ForwardChunked_AllReduce(m, e, hidden_states, d) ==
    [ok |-> TRUE, err |-> 0, kv |-> d, path |-> "chunked", wrote |-> {},
     coll |-> IF e.sequence_parallel
              THEN <<"gather_from_sequence_parallel_region",
                     "reduce_from_tensor_model_parallel_region">>
              ELSE <<"copy_to_tensor_model_parallel_region",
                     "reduce_from_tensor_model_parallel_region">>,
     out_shape |-> OutFullShape(m, e, hidden_states)]

\* A faulty variant of ForwardChunked, for comparison: the entry collective
\* is issued only on the branch of the reference convolution
ForwardChunked_KernelCollective(m, e, hidden_states, d) ==
    [ok |-> TRUE, err |-> 0, kv |-> d, path |-> "chunked", wrote |-> {},
     coll |-> (IF e.has_causal_conv1d THEN <<>>
               ELSE IF e.sequence_parallel
               THEN <<"gather_from_sequence_parallel_region">>
               ELSE <<"copy_to_tensor_model_parallel_region">>)
              \o (IF e.sequence_parallel
                  THEN <<"reduce_scatter_to_sequence_parallel_region">>
                  ELSE <<"reduce_from_tensor_model_parallel_region">>),
     out_shape |-> IF e.sequence_parallel
                   THEN ReduceScatterShape(OutFullShape(m, e, hidden_states),
                                           m.tensor_model_parallel_size)
                   ELSE OutFullShape(m, e, hidden_states)]

\* lines 199-282 with conv_state None and ssm_state None (no session): the
\* entry collective, the projection, convolution, scan and normalization,
\* the output projection and the exit collective.
\*   206  gather_from_sequence_parallel_region   (sequence_parallel)
\*   208  copy_to_tensor_model_parallel_region   (otherwise)
\*   279  reduce_scatter_to_sequence_parallel_region(out_full)
\*   281  reduce_from_tensor_model_parallel_region(out_full)
ForwardChunked(m, e, hidden_states, d) ==
    [ok |-> TRUE, err |-> 0, kv |-> d, path |-> "chunked", wrote |-> {},
     coll |-> IF e.sequence_parallel
              THEN <<"gather_from_sequence_parallel_region",
                     "reduce_scatter_to_sequence_parallel_region">>
              ELSE <<"copy_to_tensor_model_parallel_region",
                     "reduce_from_tensor_model_parallel_region">>,
     out_shape |-> IF e.sequence_parallel
                   THEN ReduceScatterShape(OutFullShape(m, e, hidden_states),
                                           m.tensor_model_parallel_size)
                   ELSE OutFullShape(m, e, hidden_states)]

\* lines 199-223 with conv_state bound (a session at offset 0): the entry
\* collective and the projection run, then line 223 reads the local x, which
\* is first assigned at line 241, and raises while building the argument of
\* conv_state.copy_; the copy to ssm_state (line 266) is not reached.
ForwardPrefill(e, d) ==
    [ok |-> FALSE, err |-> 223, kv |-> d, path |-> "chunked", wrote |-> {},
     coll |-> IF e.sequence_parallel
              THEN <<"gather_from_sequence_parallel_region">>
              ELSE <<"copy_to_tensor_model_parallel_region">>,
     out_shape |-> <<>>]

\* lines 194-197: the stepwise path on the cached pair of layer_idx.  step
\* writes conv_state in place at line 368 (reference path) or inside
\* causal_conv1d_update once its shape checks pass, and ssm_state at line 401
\* or inside selective_state_update.
ForwardStep(m, e, layer_idx, hidden_states, d) ==
    LET s == StepCall(m, e, hidden_states, d[layer_idx].conv, d[layer_idx].ssm)
    IN  [ok |-> s.ok, err |-> s.err, path |-> "step", coll |-> s.coll,
         kv |-> [d EXCEPT ![layer_idx].conv = s.conv, ![layer_idx].ssm = s.ssm],
         wrote |-> (IF s.err \in {355, 375} THEN {} ELSE {"conv"})
                   \cup (IF s.ok THEN {"ssm"} ELSE {}),
         out_shape |-> IF s.ok THEN Shape(hidden_states) ELSE <<>>]

\* A faulty variant of ForwardCall, for comparison: the assertion of line 192 is missing
ForwardCall_NoAssert(m, e, layer_idx, hidden_states, has_session, offset, d) ==
    IF ~has_session
    THEN ForwardChunked(m, e, hidden_states, d)
    ELSE LET g == GetStatesFromCache(m, layer_idx, d, Len(hidden_states[1]), FALSE)
         IN  IF ~g.ok
             THEN [ok |-> FALSE, err |-> g.err, kv |-> g.kv, path |-> "none",
                   coll |-> <<>>, out_shape |-> <<>>, wrote |-> {}]
             ELSE IF offset > 0
             THEN ForwardStep(m, e, layer_idx, hidden_states, g.kv)
             ELSE ForwardPrefill(e, g.kv)

\* lines 182-282: forward(hidden_states, inference_params), where
\* inference_params is None (has_session FALSE) or holds the dict d and
\* seqlen_offset = offset.
\*   192  assert not self.config.sequence_parallel
\*   193  conv_state, ssm_state = self._get_states_from_cache(..., batch)
\*   194  if inference_params.seqlen_offset > 0: return self.step(...)
ForwardCall(m, e, layer_idx, hidden_states, has_session, offset, d) ==
    IF ~has_session
    THEN ForwardChunked(m, e, hidden_states, d)
    ELSE IF e.sequence_parallel
    THEN [ok |-> FALSE, err |-> 192, kv |-> d, path |-> "none",
          coll |-> <<>>, out_shape |-> <<>>, wrote |-> {}]
    ELSE LET g == GetStatesFromCache(m, layer_idx, d, Len(hidden_states[1]), FALSE)
         IN  IF ~g.ok
             THEN [ok |-> FALSE, err |-> g.err, kv |-> g.kv, path |-> "none",
                   coll |-> <<>>, out_shape |-> <<>>, wrote |-> {}]
             ELSE IF offset > 0
             THEN ForwardStep(m, e, layer_idx, hidden_states, g.kv)
             ELSE ForwardPrefill(e, g.kv)

----------------------------------------------------------------------------
(* Calls on a constructed mixer and a session.                             *)

MaxSeq == 2
MaxBatch == 2
MaxOffset == 1

LayerIdxs == {1, 2}
Keys == LayerIdxs \cup {None}
CacheBatches == {1}
TokenVals == {1}

\* The configurations the calls run on: one shard, and two shards.
RuntimeArgs ==
    {a \in CtorArgs :
        /\ a.d_model = 2 /\ a.headdim = 1 /\ ~a.bias /\ a.conv_bias
        /\ a.A_lo = 1 /\ a.A_hi = 2
        /\ \/ a.expand = 1 /\ a.ngroups = 1 /\ a.p = 1
           \/ a.expand = 2 /\ a.ngroups = 2 /\ a.p = 2}

\* The entries a session owner holds for a key: the pair of
\* allocate_inference_cache for some batch size, either still zero or holding
\* the content of earlier use.
HostEntries(m, k) ==
    LET pair(b) == allocate_inference_cache(m, b, TRUE)
    IN  {[conv |-> pair(b).conv, ssm |-> pair(b).ssm,
          id |-> [by |-> "host", key |-> k]] : b \in CacheBatches}
        \cup
        {[conv |-> Ramp(b, m.d_inner_local, m.d_conv),
          ssm |-> Ramp(b, m.d_inner_local, m.d_state),
          id |-> [by |-> "host", key |-> k]] : b \in CacheBatches}

Init ==
    /\ args \in RuntimeArgs
    /\ mixer = Mamba(args)
    /\ env \in [sequence_parallel : BOOLEAN, has_causal_conv1d : BOOLEAN]
    /\ \E d \in [Keys -> BOOLEAN] : \E z \in BOOLEAN :
          kv = [k \in Keys |->
                  IF ~d[k] THEN Absent
                  ELSE CHOOSE en \in HostEntries(mixer, k) : IsZero(en.conv) = z]
    /\ call = Idle
    /\ coll = <<>>
    /\ inp = NoInp
    /\ res = NoRes

\* _get_states_from_cache called on the session by the mixer of layer_idx
CacheRequest ==
    \E layer_idx \in Keys, batch_size \in 1..MaxBatch, initialize_states \in BOOLEAN :
        LET g == GetStatesFromCache(mixer, layer_idx, kv, batch_size, initialize_states)
        IN  /\ kv' = g.kv
            /\ call' = [op |-> "get_states", layer_idx |-> layer_idx,
                        batch |-> batch_size, init |-> initialize_states,
                        ok |-> g.ok, err |-> g.err, pre |-> kv]
            /\ coll' = <<>>
            /\ UNCHANGED <<args, mixer, env, inp, res>>

\* forward(hidden_states) called on the mixer of layer_idx without a session
ForwardNoSession ==
    \E layer_idx \in Keys, L \in 1..MaxSeq, B \in 1..MaxBatch, v \in TokenVals :
        LET f == ForwardCall(mixer, env, layer_idx, Hidden(L, B, mixer, v),
                             FALSE, 0, kv)
        IN  /\ kv' = f.kv
            /\ call' = [op |-> "forward", layer_idx |-> layer_idx, seqlen |-> L,
                        batch |-> B, token |-> v, has_session |-> FALSE,
                        offset |-> 0, path |-> f.path,
                        ok |-> f.ok, err |-> f.err, out_shape |-> f.out_shape,
                        wrote |-> f.wrote, pre |-> kv]
            /\ coll' = f.coll
            /\ UNCHANGED <<args, mixer, env, inp, res>>

\* forward(hidden_states, inference_params) called on the mixer of layer_idx
\* with the session, whose owner has set seqlen_offset = offset
ForwardSession ==
    \E layer_idx \in Keys, L \in 1..MaxSeq, B \in 1..MaxBatch, v \in TokenVals,
       offset \in 0..MaxOffset :
        LET f == ForwardCall(mixer, env, layer_idx, Hidden(L, B, mixer, v),
                             TRUE, offset, kv)
        IN  /\ kv' = f.kv
            /\ call' = [op |-> "forward", layer_idx |-> layer_idx, seqlen |-> L,
                        batch |-> B, token |-> v, has_session |-> TRUE,
                        offset |-> offset, path |-> f.path,
                        ok |-> f.ok, err |-> f.err, out_shape |-> f.out_shape,
                        wrote |-> f.wrote, pre |-> kv]
            /\ coll' = f.coll
            /\ UNCHANGED <<args, mixer, env, inp, res>>

\* step called directly on the pair the session holds under key k
Step ==
    \E k \in Keys, L \in 1..MaxSeq, B \in 1..MaxBatch, v \in TokenVals :
        /\ kv[k] # Absent
        /\ LET s == StepCall(mixer, env, Hidden(L, B, mixer, v), kv[k].conv, kv[k].ssm)
           IN  /\ kv' = [kv EXCEPT ![k].conv = s.conv, ![k].ssm = s.ssm]
               /\ call' = [op |-> "step", layer_idx |-> k, seqlen |-> L,
                           batch |-> B, token |-> v, ok |-> s.ok, err |-> s.err, pre |-> kv]
               /\ coll' = s.coll
        /\ UNCHANGED <<args, mixer, env, inp, res>>

Next == CacheRequest \/ ForwardNoSession \/ ForwardSession \/ Step

Spec == Init /\ [][Next]_vars

----------------------------------------------------------------------------
(* Properties of the calls.                                                *)

\* The last call was a cache request: a direct one, or the one forward makes
\* at line 193 (reached only without sequence parallelism).
RequestMade ==
    \/ call.op = "get_states"
    \/ call.op = "forward" /\ call.has_session /\ ~env.sequence_parallel

\* The last call ran step: directly, or from forward at line 196.
StepRan ==
    \/ call.op = "step"
    \/ call.op = "forward" /\ call.path = "step"

\* C3: decoding token by token with step from a zeroed cache gives, for every
\* token, the output of the chunked forward call and leaves its final state:
\* in particular every such one-token step returns an output.
C3_StepReproducesScan ==
    (/\ StepRan
     /\ call.seqlen = 1
     /\ call.pre[call.layer_idx] # Absent
     /\ IsZero(call.pre[call.layer_idx].conv)
     /\ IsZero(call.pre[call.layer_idx].ssm)
     /\ call.batch = Len(call.pre[call.layer_idx].conv))
        => call.ok

\* C4: for a layer with a set layer_idx the first request on a session with
\* no entry for it stores all-zero buffers of shapes (batch, d_inner_local,
\* d_conv) and (batch, d_inner_local, d_state) under layer_idx, and no call
\* replaces an entry the session holds.
C4_GetOrCreate ==
    /\ (/\ call.op = "get_states"
        /\ call.layer_idx # None
        /\ call.pre[call.layer_idx] = Absent)
          => /\ call.ok
             /\ kv[call.layer_idx] # Absent
             /\ IsZero(kv[call.layer_idx].conv)
             /\ IsZero(kv[call.layer_idx].ssm)
             /\ Shape(kv[call.layer_idx].conv)
                  = <<call.batch, mixer.d_inner_local, mixer.d_conv>>
             /\ Shape(kv[call.layer_idx].ssm)
                  = <<call.batch, mixer.d_inner_local, mixer.d_state>>
    /\ call.op # "none" =>
          \A k \in LayerIdxs :
              call.pre[k] # Absent =>
                  kv[k] # Absent /\ kv[k].id = call.pre[k].id

\* C5: a request for a layer that has an entry leaves the buffers' contents
\* unchanged when initialize_states is false and leaves both all zero when it
\* is true; a first request returns all-zero buffers whatever the flag.
C5_ReinitializeFlag ==
    (call.op = "get_states" /\ call.layer_idx # None) =>
        /\ call.ok
        /\ kv[call.layer_idx] # Absent
        /\ IF call.pre[call.layer_idx] # Absent /\ ~call.init
           THEN kv[call.layer_idx] = call.pre[call.layer_idx]
           ELSE IsZero(kv[call.layer_idx].conv) /\ IsZero(kv[call.layer_idx].ssm)

\* C6: a cache request by a mixer whose layer_idx is None fails, and the
\* session's dict is as it was before the request.
C6_UnsetLayerFails ==
    (RequestMade /\ call.layer_idx = None) =>
        /\ ~call.ok
        /\ call.err = 429
        /\ kv = call.pre

\* C6 witness: a failed request with initialize_states set and layer_idx
\* None, on a session whose dict holds non-zero buffers under the key None.
C6_Witness ==
    /\ call.op = "get_states"
    /\ call.layer_idx = None
    /\ call.init
    /\ ~call.ok
    /\ call.pre[None] # Absent
    /\ ~IsZero(call.pre[None].conv)

\* C7: step fails whenever its input's sequence length is not 1, and then
\* neither buffer has been modified.
C7_StepLengthCheck ==
    (StepRan /\ call.seqlen # 1) =>
        /\ ~call.ok
        /\ call.err = 355
        /\ kv = call.pre

\* C7 witness: a failed two-token step on buffers that hold non-zero content.
C7_Witness ==
    /\ call.op = "step"
    /\ call.seqlen = 2
    /\ ~call.ok
    /\ ~IsZero(call.pre[call.layer_idx].conv)
    /\ ~IsZero(call.pre[call.layer_idx].ssm)

\* C8: a forward call given a session while sequence_parallel is set fails
\* before any entry is created, any buffer is modified or any collective is
\* issued.
C8_SequenceParallelSession ==
    (call.op = "forward" /\ call.has_session /\ env.sequence_parallel) =>
        /\ ~call.ok
        /\ call.err = 192
        /\ kv = call.pre
        /\ coll = <<>>

\* C8 witness: such a failed call at offset 0 and one at offset 1, on a
\* session that holds non-zero buffers for the layer.
C8_Witness ==
    /\ call.op = "forward"
    /\ call.has_session
    /\ env.sequence_parallel
    /\ ~call.ok
    /\ call.layer_idx \in LayerIdxs
    /\ call.pre[call.layer_idx] # Absent
    /\ ~IsZero(call.pre[call.layer_idx].conv)

\* The last call was forward with a session at offset 0 that passed the
\* assertion of line 192 and the cache request of line 193: a prompt call.
PromptCall ==
    /\ call.op = "forward" /\ call.has_session /\ call.offset = 0
    /\ ~env.sequence_parallel
    /\ call.layer_idx # None
    /\ call.pre[call.layer_idx] # Absent

\* C11: after a chunked forward call given an inference cache, the conv-state
\* buffer holds the last d_conv positions of xBC as they were before the
\* convolution, in order, with zeros on the left for a shorter sequence.
C11_ConvStateAfterPrompt ==
    PromptCall =>
        /\ call.ok
        /\ kv[call.layer_idx].conv
             = FPadLeft(ForwardXBC(mixer, Hidden(call.seqlen, call.batch, mixer,
                                                 call.token)),
                        mixer.d_conv)

\* The collectives that sum the shards' partial results of out_proj
Reductions ==
    {"reduce_scatter_to_sequence_parallel_region",
     "reduce_from_tensor_model_parallel_region"}

\* C12: a forward call that returns has issued exactly one reduction of the
\* output projection's partial results, as its last collective: the
\* reduce-scatter when sequence_parallel is set, the all-reduce otherwise.
C12_OneExitReduction ==
    (call.op = "forward" /\ call.ok) =>
        /\ Len(coll) >= 1
        /\ coll[Len(coll)] = IF env.sequence_parallel
                             THEN "reduce_scatter_to_sequence_parallel_region"
                             ELSE "reduce_from_tensor_model_parallel_region"
        /\ Cardinality({i \in 1..Len(coll) : coll[i] \in Reductions}) = 1

\* C12 witness: a returned call under sequence parallelism on two shards.
C12_Witness ==
    /\ call.op = "forward" /\ call.ok
    /\ env.sequence_parallel
    /\ mixer.tensor_model_parallel_size = 2
    /\ Len(coll) = 2

\* C13: the output of a forward call that returns has the shape of its
\* input, (seq, batch, d_model): under sequence parallelism that is the local
\* slice the call was given.
C13_OutputShape ==
    (call.op = "forward" /\ call.ok) =>
        call.out_shape = <<call.seqlen, call.batch, mixer.d_model>>

\* C13 witness: a returned call on a two-position local slice of a batch of
\* two under sequence parallelism on two shards (gathered to four positions).
C13_Witness ==
    /\ call.op = "forward" /\ call.ok
    /\ env.sequence_parallel
    /\ mixer.tensor_model_parallel_size = 2
    /\ call.seqlen = 2 /\ call.batch = 2
    /\ call.out_shape[1] = 2

\* C19: forward selects its mode from the session alone: it runs the stepwise
\* path exactly when a session is supplied and its offset is greater than 0;
\* with a session at offset 0 it runs the chunked path and writes both cached
\* buffers; with no session it runs the chunked path and touches no cache.
C19_ModeFromSession ==
    call.op = "forward" =>
        /\ call.path = "step" => call.has_session /\ call.offset > 0
        /\ (/\ call.has_session /\ call.offset > 0 /\ ~env.sequence_parallel
            /\ call.layer_idx # None /\ call.pre[call.layer_idx] # Absent)
              => call.path = "step"
        /\ PromptCall =>
              /\ call.path = "chunked"
              /\ call.ok
              /\ call.wrote = {"conv", "ssm"}
        /\ ~call.has_session =>
              /\ call.path = "chunked"
              /\ call.wrote = {}
              /\ kv = call.pre

\* C20: a prompt call with a session returns and leaves the scan's final
\* state in the cached ssm buffer, and each one-token stepwise call that
\* follows on that session returns the next token's output.
C20_PromptThenSteps ==
    /\ PromptCall => call.ok /\ "ssm" \in call.wrote
    /\ (/\ call.op = "forward" /\ call.has_session /\ call.offset > 0
        /\ ~env.sequence_parallel
        /\ call.layer_idx # None /\ call.pre[call.layer_idx] # Absent
        /\ call.seqlen = 1
        /\ call.batch = Len(call.pre[call.layer_idx].conv))
          => call.ok /\ "ssm" \in call.wrote

\* The shape of the window the prompt call copies into conv_state (line 223)
\* and the decode step convolves (lines 370, 375-381): the stream xBC,
\* conv_dim channels (lines 114-125, 211-217), d_conv positions.
ConvWindowShape(m, batch_size) == <<batch_size, conv_dim(m), m.d_conv>>

\* The shape of the final state the chunked scan returns (line 265) for the
\* x of line 245, (b, l, nheads_local, headdim), and B of line 247, (b, l,
\* ngroups_local, d_state): per head, per head-dim, per state-dim.
FinalStateShape(m, batch_size) ==
    <<batch_size, m.nheads_local, m.headdim, m.d_state>>

\* C25: for every valid configuration the conv-state buffer the cache manager
\* allocates has the shape of the xBC window copied into it, conv_dim
\* channels, and the ssm-state buffer has the shape of the final state of the
\* chunked scan, (batch, heads, head-dim, state-dim).
C25_CacheShapes ==
    (args # NoArgs /\ mixer.ok) =>
        \A b \in 1..MaxBatch :
            /\ Shape(allocate_inference_cache(mixer, b, TRUE).conv)
                 = ConvWindowShape(mixer, b)
            /\ LET t == allocate_inference_cache(mixer, b, TRUE).ssm
               IN  <<Len(t), Len(t[1]), Len(t[1][1])>>
                     = FinalStateShape(mixer, b)

\* C26: a cache request, prompt call or decode step by the mixer of layer i
\* leaves the session entry of every other layer as it was (not created, not
\* rebound, not modified), and no two entries of the session are the same
\* pair of buffers.
C26_OtherLayersUntouched ==
    call.op # "none" =>
        /\ \A j \in Keys \ {call.layer_idx} : kv[j] = call.pre[j]
        /\ \A j, k \in Keys :
              (j # k /\ kv[j] # Absent /\ kv[k] # Absent) => kv[j].id # kv[k].id

\* C26 witness: a request with initialize_states by layer 1 that zeroes its
\* non-zero buffers while layer 2 keeps its non-zero buffers.
C26_Witness ==
    /\ call.op = "get_states"
    /\ call.layer_idx = 1
    /\ call.init
    /\ call.ok
    /\ call.pre[1] # Absent /\ ~IsZero(call.pre[1].conv)
    /\ IsZero(kv[1].conv)
    /\ kv[2] # Absent /\ ~IsZero(kv[2].conv)

\* C21: when a session that holds state for a layer is reused at offset 0,
\* the prompt call returns, and the cached buffers after it are those the
\* same call leaves on a session whose buffers held zeros: they do not depend
\* on the buffers' previous contents.
C21_ResetOnNewSequence ==
    PromptCall =>
        LET l == call.layer_idx
            zeroed == [call.pre EXCEPT ![l].conv = ZerosLike(@),
                                       ![l].ssm = ZerosLike(@)]
            ref == ForwardCall(mixer, env, l,
                               Hidden(call.seqlen, call.batch, mixer, call.token),
                               TRUE, 0, zeroed)
        IN  /\ call.ok
            /\ kv[l].conv = ref.kv[l].conv
            /\ kv[l].ssm = ref.kv[l].ssm

\* C23: the reference stepwise convolution keeps conv_state as a sliding
\* window: after the first one-token step from a zeroed buffer the buffer
\* holds that token's conv input xBC in its last column and zeros before it,
\* the window the chunked path writes for a sequence of length 1.
C23_SlidingWindow ==
    (/\ StepRan
     /\ call.seqlen = 1
     /\ ~env.has_causal_conv1d
     /\ call.pre[call.layer_idx] # Absent
     /\ IsZero(call.pre[call.layer_idx].conv)
     /\ call.batch = Len(call.pre[call.layer_idx].conv))
        => kv[call.layer_idx].conv
             = FPadLeft(ForwardXBC(mixer, Hidden(1, call.batch, mixer, call.token)),
                        mixer.d_conv)

\* C22: a cache request for a layer whose entry was created with another
\* batch size neither fails nor reallocates: the entry is the one the session
\* held, with its original batch dimension.
C22_BatchMismatchReuses ==
    (/\ RequestMade
     /\ call.layer_idx # None
     /\ call.pre[call.layer_idx] # Absent
     /\ call.batch # Len(call.pre[call.layer_idx].conv))
        => /\ call.op = "get_states" => call.ok
           /\ call.err # 429 /\ call.err # 442
           /\ kv[call.layer_idx] # Absent
           /\ kv[call.layer_idx].id = call.pre[call.layer_idx].id
           /\ Shape(kv[call.layer_idx].conv) = Shape(call.pre[call.layer_idx].conv)
           /\ Shape(kv[call.layer_idx].ssm) = Shape(call.pre[call.layer_idx].ssm)
           /\ Len(kv[call.layer_idx].conv) # call.batch

\* C22 witness: a request with batch size 2, without the flag, on an entry
\* made for batch size 1 that holds non-zero content, which it keeps.
C22_Witness ==
    /\ call.op = "get_states"
    /\ call.layer_idx \in LayerIdxs
    /\ call.pre[call.layer_idx] # Absent
    /\ call.batch = 2
    /\ Len(call.pre[call.layer_idx].conv) = 1
    /\ ~call.init
    /\ call.ok
    /\ ~IsZero(kv[call.layer_idx].conv)
    /\ kv[call.layer_idx] = call.pre[call.layer_idx]

----------------------------------------------------------------------------
(* One forward call run by every device of a tensor-parallel group: the    *)
(* devices share the configuration, the input and the session's content,   *)
(* and each has imported the optional kernels or not.  Every device runs   *)
(* its own call; a device that enters a collective waits in it until every *)
(* device of the group has entered the same one.                           *)

Ranks(m) == 1..m.tensor_model_parallel_size

InitRanks ==
    /\ args \in RuntimeArgs
    /\ mixer = Mamba(args)
    /\ env \in [sequence_parallel : BOOLEAN, has_causal_conv1d : {FALSE}]
    /\ \E d \in [Keys -> BOOLEAN] : \E z \in BOOLEAN :
          kv = [k \in Keys |->
                  IF ~d[k] THEN Absent
                  ELSE CHOOSE en \in HostEntries(mixer, k) : IsZero(en.conv) = z]
    /\ call = Idle
    /\ coll = <<>>
    /\ inp = NoInp
    /\ res = NoRes

\* The collectives in which a device waits for the group: the all-gather of
\* line 206 and the reductions of lines 279 and 281;
\* copy_to_tensor_model_parallel_region (line 208) passes its input on without
\* communication.
Blocking(c) == c # "copy_to_tensor_model_parallel_region"

\* forward(hidden_states, inference_params) as rank r runs it: the call of
\* the group on r's copy of the session dict, with r's kernels
RankCall(r) ==
    ForwardCall(mixer,
                [sequence_parallel |-> env.sequence_parallel,
                 has_causal_conv1d |-> res.kernels[r]],
                call.layer_idx,
                Hidden(call.seqlen, call.batch, mixer, call.token),
                call.has_session, call.offset, call.pre)

\* The group starts one forward call: every rank gets the same arguments
\* and session content; kernels[r] tells whether rank r imported
\* causal_conv1d.  No rank has run yet.
GroupForward ==
    \E layer_idx \in Keys, L \in 1..MaxSeq, B \in 1..MaxBatch, v \in TokenVals,
       has_session \in BOOLEAN, offset \in 0..MaxOffset,
       kernels \in [Ranks(mixer) -> BOOLEAN] :
        /\ call = Idle
        /\ has_session \/ offset = 0
        /\ call' = [op |-> "forward", layer_idx |-> layer_idx, seqlen |-> L,
                    batch |-> B, token |-> v, has_session |-> has_session,
                    offset |-> offset, pre |-> kv]
        /\ res' = [kind |-> "ranks", kernels |-> kernels,
                   rank |-> [r \in Ranks(mixer) |->
                               [pc |-> "running", coll |-> <<>>, ok |-> FALSE,
                                err |-> 0, kv |-> kv]]]
        /\ UNCHANGED <<args, mixer, env, kv, coll, inp>>

\* Rank r runs on from where it is to the next collective of its call and
\* enters it, or, with none left, to the end of the call: it returns, or
\* raises at the line its call raises at.
RankRun(r) ==
    /\ res.kind = "ranks"
    /\ res.rank[r].pc = "running"
    /\ LET f == RankCall(r)
           n == Len(res.rank[r].coll)
       IN  /\ res' = [res EXCEPT !.rank[r] =
                        IF n < Len(f.coll)
                        THEN [@ EXCEPT !.pc = "waiting",
                                       !.coll = Append(@, f.coll[n + 1])]
                        ELSE [pc |-> IF f.ok THEN "returned" ELSE "raised",
                              coll |-> f.coll, ok |-> f.ok, err |-> f.err,
                              kv |-> f.kv]]
           /\ coll' = IF r = 1 /\ n < Len(f.coll)
                      THEN Append(coll, f.coll[n + 1]) ELSE coll
    /\ UNCHANGED <<args, mixer, env, kv, call, inp>>

\* Rank r leaves the collective it waits in: every rank of the group has
\* entered the same collective as its n-th, or the collective is one that
\* does not communicate.
RankLeave(r) ==
    /\ res.kind = "ranks"
    /\ res.rank[r].pc = "waiting"
    /\ LET n == Len(res.rank[r].coll)
           c == res.rank[r].coll[n]
       IN  \/ ~Blocking(c)
           \/ \A q \in Ranks(mixer) :
                 /\ Len(res.rank[q].coll) >= n
                 /\ res.rank[q].coll[n] = c
    /\ res' = [res EXCEPT !.rank[r].pc = "running"]
    /\ UNCHANGED <<args, mixer, env, kv, call, coll, inp>>

NextRanks ==
    \/ GroupForward
    \/ \E r \in Ranks(mixer) : RankRun(r) \/ RankLeave(r)

SpecRanks == InitRanks /\ [][NextRanks]_vars

\* every rank's call is over: it returned or raised
RanksFinished ==
    \A r \in Ranks(mixer) : res.rank[r].pc \in {"returned", "raised"}

\* C18: the devices of a group that run the same forward call (same
\* configuration, same session and offset) issue the same sequence of
\* collectives, whichever kernels each imported and whichever path the call
\* takes: at every moment the collectives two devices have entered agree
\* position by position, at the end they are the same sequence, and as long
\* as some device's call is not over some device can take a step, so that no
\* device waits in a collective forever.
C18_SameCollectives ==
    res.kind = "ranks" =>
        /\ \A r1, r2 \in Ranks(mixer) :
              \A k \in 1..Len(res.rank[r1].coll) :
                  k <= Len(res.rank[r2].coll)
                      => res.rank[r1].coll[k] = res.rank[r2].coll[k]
        /\ RanksFinished =>
              \A r1, r2 \in Ranks(mixer) : res.rank[r1].coll = res.rank[r2].coll
        /\ RanksFinished \/ ENABLED NextRanks

\* C18 witness: a group of two whose ranks imported different kernels, on a
\* call that returns on both after two collectives.
C18_Witness ==
    /\ res.kind = "ranks"
    /\ mixer.tensor_model_parallel_size = 2
    /\ res.kernels[1] # res.kernels[2]
    /\ res.rank[1].ok /\ res.rank[2].ok
    /\ res.rank[1].pc = "returned" /\ res.rank[2].pc = "returned"
    /\ Len(res.rank[1].coll) = 2

----------------------------------------------------------------------------
(* The convolution stage (one channel of the depthwise convolution) and    *)
(* the selective scan (one head, headdim 1, d_state 1), as functions of    *)
(* the streams.  Activations are integers.                                 *)

MaxLen == 3

ConvWidths == {2, 3}
XVals == {0, 1}
WeightVals == {1, 2}
BiasVals == {0, 1}

\* nn.SiLU, v * sigmoid(v), rounded to the nearest integer: for an integer v
\* the distance of SiLU(v) to max(v, 0) is |v| / (1 + e^|v|) < 1/2.
act(v) == IF v > 0 THEN v ELSE 0

\* F.softplus, ln(1 + e^v), rounded up to the next integer: strictly
\* positive and monotone, as softplus is.
softplus(v) == IF v > 0 THEN v + 1 ELSE 1

RECURSIVE Pow2(_)
\* 2^n for a whole n >= 0, the powers of two of the fixed-point arithmetic
Pow2(n) == IF n = 0 THEN 1 ELSE 2 * Pow2(n - 1)

\* x with `padding` zeros on each side, as nn.Conv1d(padding=...) pads it
Padded(x, padding) ==
    [j \in 1..(Len(x) + 2 * padding) |->
        IF j > padding /\ j <= padding + Len(x) THEN x[j - padding] ELSE 0]

\* nn.Conv1d(kernel_size, padding, groups=channels) on one channel: the
\* cross-correlation of the padded input with the kernel, plus the bias;
\* Len(x) + 2 * padding - kernel_size + 1 output positions.
Conv1d(x, weight, bias, kernel_size, padding) ==
    LET xp == Padded(x, padding)
    IN  [t \in 1..(Len(x) + 2 * padding - kernel_size + 1) |->
            bias + SumTo([k \in 1..kernel_size |-> weight[k] * xp[t + k - 1]],
                         kernel_size)]

\* A faulty variant of ConvRef, for comparison: the slice keeps the last seqlen positions
ConvRef_LastSlice(xBC, weight, bias, d_conv) ==
    LET full == Conv1d(xBC, weight, bias, d_conv, d_conv - 1)
    IN  [t \in 1..Len(xBC) |-> act(full[t + d_conv - 1])]

\* lines 116-125 and 227: self.act(self.conv1d(xBC)[..., :seqlen]) with
\* kernel_size = d_conv and padding = d_conv - 1
ConvRef(xBC, weight, bias, d_conv) ==
    LET full == Conv1d(xBC, weight, bias, d_conv, d_conv - 1)
    IN  [t \in 1..Len(xBC) |-> act(full[t])]

\* causal_conv1d_fn(x, weight, bias, activation) of the causal_conv1d
\* package: position t sees the d_conv inputs ending at t, the last kernel
\* tap on x[t], zeros before the start.
causal_conv1d_fn(x, weight, bias, d_conv) ==
    [t \in 1..Len(x) |->
        act(bias + SumTo([j \in 1..d_conv |->
                            IF t - (d_conv - j) >= 1
                            THEN weight[j] * x[t - (d_conv - j)] ELSE 0],
                         d_conv))]

\* lines 225-235: the convolution of forward, by the kernel that was imported
ConvStage(e, xBC, weight, bias, d_conv) ==
    IF ~e.has_causal_conv1d
    THEN ConvRef(xBC, weight, bias, d_conv)
    ELSE causal_conv1d_fn(xBC, weight, bias, d_conv)

----------------------------------------------------------------------------
(* The scan.  A_log and dt are measured in units of ln 2, so exp(A_log) is  *)
(* the power of two 2^A_log and the discretized transition exp(dt * A) is  *)
(* 2^(dt * A).  A and the transition are float32 values, kept by their     *)
(* class (zero, a power of two, between two powers of two, infinite);      *)
(* states and outputs are fixed-point numbers in units of 1 / Scale: every *)
(* quotient the scan takes is exact for sequences of up to MaxLen tokens   *)
(* and A_log in ALogs.                                                     *)

\* torch.float32 (self.A_log.float()): its positive values reach from
\* 2^FloatMinExp, the smallest subnormal, to below 2^(FloatMaxExp + 1)
FloatMinExp == 0 - 149
FloatMaxExp == 127

\* torch.exp on the float32 nearest to n * ln 2: the power of two 2^n; inf
\* when 2^n lies above every finite float32 (overflow); and below the
\* smallest subnormal the result rounds to the nearest float32: to 2^FloatMinExp
\* at n = FloatMinExp - 1 (the float32 nearest to that n * ln 2 lies just
\* above it, and so does its exp above the midpoint), to 0.0 below
\* (underflow)
exp(n) ==
    IF n < FloatMinExp - 1 THEN [cls |-> "zero"]
    ELSE IF n < FloatMinExp THEN [cls |-> "pow2", e |-> FloatMinExp]
    ELSE IF n > FloatMaxExp THEN [cls |-> "inf"]
    ELSE [cls |-> "pow2", e |-> n]

ALogs == {0, 1}

\* The A_log of the discretization runs: around the underflow of exp, around
\* the transitions that round to 1.0, small values of either sign, and around
\* the overflow of exp
ALogRange ==
    {FloatMinExp - 2, FloatMinExp - 1, FloatMinExp, FloatMinExp + 1, 0 - 26, 0 - 25, 0 - 24,
     0 - 2, 0 - 1, 0, 1, 2, 7, 8, FloatMaxExp, FloatMaxExp + 1}
DtVals == {0, 1}
UVals == {1, 2}
CVals == {1, 2}

\* the most dt * |A| of one token: softplus(1) * 2^1
MaxShift == softplus(1) * Pow2(1)
Scale == Pow2(MaxShift * MaxLen)

\* A faulty variant of A_of, for comparison: the negation is missing
A_of_NoNegation(A_log) == [neg |-> FALSE, mag |-> exp(A_log)]

\* lines 200 and 393: A = -torch.exp(self.A_log.float()): the sign bit set
\* on the float32 exp(A_log), so -0.0 when exp underflows and -inf when it
\* overflows
A_of(A_log) == [neg |-> TRUE, mag |-> exp(A_log)]

\* dt_eff = softplus(dt_raw + dt_bias)
dt_eff(tok, P) == softplus(tok.dt + P.dt_bias)

\* the least count of halvings at which exp gives 0.0 in float32: one less
\* still rounds to the smallest subnormal
Underflow == 2 - FloatMinExp

\* d * 2^e <= 2^(-25) / ln 2: whether exp(-(d * 2^e) ln 2) is nearer to 1.0
\* than to the float32 below it, 1 - 2^(-24)
RoundsToOne(d, e) ==
    LET k == 0 - 25 - e
    IN  k >= 0 /\ (k > 20 \/ 100 * d <= 144 * Pow2(k))

\* exp(dt_eff * A) in float32 (line 399 in step, inside the scan kernels in
\* forward), for dt_eff > 0:
\*   A = -0.0 or +0.0          dt_eff * A is a zero and the result 1.0
\*   A = -inf (+inf)           the result is 0.0 (inf)
\*   |dt_eff * A| whole        exp of it: a power of two, 0.0 past the
\*                             underflow (inf past the overflow); past 2^8
\*                             the product is beyond both
\*   otherwise                 1.0 when it rounds to it, or a value strictly
\*                             between 2^e and 2^(e + 1)
Transition(tok, P) ==
    LET d == dt_eff(tok, P)
        m == P.A.mag
    IN  IF m.cls = "zero" THEN [cls |-> "one"]
        ELSE IF m.cls = "inf" \/ m.e > 8
        THEN IF P.A.neg THEN [cls |-> "zero"] ELSE [cls |-> "inf"]
        ELSE IF m.e >= 0
        THEN exp(IF P.A.neg THEN 0 - d * Pow2(m.e) ELSE d * Pow2(m.e))
        ELSE IF RoundsToOne(d, m.e) THEN [cls |-> "one"]
        ELSE IF 0 - m.e > 20 \/ d < Pow2(0 - m.e)
        THEN [cls |-> "frac", e |-> IF P.A.neg THEN 0 - 1 ELSE 0]
        ELSE LET q == Pow2(0 - m.e)
             IN  IF d % q = 0
                 THEN exp(IF P.A.neg THEN 0 - (d \div q) ELSE d \div q)
                 ELSE [cls |-> "frac",
                       e |-> IF P.A.neg THEN 0 - (d \div q) - 1 ELSE d \div q]

\* How many times the transition halves the state: the count behind a power
\* of two, Underflow for 0.0 (-Underflow for inf), none for 1.0; a count
\* that is not whole is taken up to the next whole one, the fixed-point
\* states holding no irrational factor
Shift(tok, P) ==
    LET T == Transition(tok, P)
    IN  IF T.cls = "one" THEN 0
        ELSE IF T.cls = "zero" THEN Underflow
        ELSE IF T.cls = "inf" THEN 0 - Underflow
        ELSE 0 - T.e

\* h * exp(dt * A) where dt * A = -shift (in units of ln 2): h halved shift
\* times (nothing of a fixed-point h is left after 30), or doubled -shift
\* times when dt * A is positive
Decay(h, shift) ==
    IF shift > 30 THEN 0
    ELSE IF shift >= 0 THEN h \div Pow2(shift)
    ELSE h * Pow2(0 - shift)

\* dt_eff * B_t * x_t, in units of 1 / Scale
Inject(tok, P) == Scale * dt_eff(tok, P) * tok.B * tok.x

\* y_t = C_t . state_t + D * x_t, times SiLU(z_t) when the scan is given z
Emit(tok, P, h) ==
    LET y == tok.C * h + Scale * P.D * tok.x
    IN  IF P.gate THEN y * act(tok.z) ELSE y

RECURSIVE CumShift(_, _, _, _)
\* the shifts of tokens s+1 .. j of toks, summed
CumShift(toks, P, s, j) ==
    IF j <= s THEN 0 ELSE Shift(toks[j], P) + CumShift(toks, P, s, j - 1)

\* The state after token j of a chunk entered with state h0, in closed form:
\* the carried state decayed over tokens 1..j plus every injection s <= j
\* decayed over tokens s+1..j.
ChunkState(toks, P, h0, j) ==
    Decay(h0, CumShift(toks, P, 0, j))
    + SumTo([s \in 1..j |-> Decay(Inject(toks[s], P), CumShift(toks, P, s, j))], j)

RECURSIVE ChunkScan_NoCarry(_, _, _, _)
\* A faulty variant of mamba_chunk_scan_fused, for comparison: every chunk starts from the zero state
ChunkScan_NoCarry(toks, P, chunk_size, h0) ==
    IF Len(toks) = 0 THEN [y |-> <<>>, final |-> h0]
    ELSE LET n == IF chunk_size < Len(toks) THEN chunk_size ELSE Len(toks)
             head == SubSeq(toks, 1, n)
             rest == ChunkScan_NoCarry(SubSeq(toks, n + 1, Len(toks)), P, chunk_size, 0)
         IN  [y |-> [j \in 1..n |-> Emit(head[j], P, ChunkState(head, P, h0, j))]
                    \o rest.y,
              final |-> IF n = Len(toks) THEN ChunkState(head, P, h0, n)
                        ELSE rest.final]

RECURSIVE mamba_chunk_scan_fused(_, _, _, _)
\* mamba_chunk_scan_fused(x, dt, A, B, C, chunk_size, D, z, dt_bias,
\* dt_softplus=True, return_final_states): the sequence is cut into chunks of
\* chunk_size tokens (the last one shorter); the states inside a chunk are
\* computed in closed form from the state carried into it, and the chunk's
\* last state is carried into the next chunk.
mamba_chunk_scan_fused(toks, P, chunk_size, h0) ==
    IF Len(toks) = 0 THEN [y |-> <<>>, final |-> h0]
    ELSE LET n == IF chunk_size < Len(toks) THEN chunk_size ELSE Len(toks)
             head == SubSeq(toks, 1, n)
             rest == mamba_chunk_scan_fused(SubSeq(toks, n + 1, Len(toks)), P,
                                            chunk_size, ChunkState(head, P, h0, n))
         IN  [y |-> [j \in 1..n |-> Emit(head[j], P, ChunkState(head, P, h0, j))]
                    \o rest.y,
              final |-> rest.final]

\* Where the chunked path applies the gate z:
\*   258      z=z if not self.rmsnorm else None   (the scan multiplies by
\*            SiLU(z) when it is given z)
\*   268-274  y = self.norm(y, z) when self.rmsnorm, nothing otherwise
ChunkedGating(rmsnorm) == [scan_gate |-> ~rmsnorm, norm |-> rmsnorm]

\* Where the text of step applies the gate z, whatever self.rmsnorm is:
\*   404      y = y * self.act(z)                 (reference update)
\*   406-408  selective_state_update(..., z=z, ...)
\*   411      out_proj follows at once: step never calls self.norm
StepGating(rmsnorm) == [scan_gate |-> TRUE, norm |-> FALSE]

\* The arguments forward passes to the scan: A (line 200), D (255-256) and
\* dt_bias (259) as parameter values, and whether z is passed (258).
ScanParams(A_log, rmsnorm) ==
    [A |-> A_of(A_log), D |-> 1, dt_bias |-> 0,
     gate |-> ChunkedGating(rmsnorm).scan_gate]

\* lines 284-351: selective_scan_ref(u, delta, A, B, C, D, z, delta_bias,
\* delta_softplus=True, return_last_state=True) on the streams of toks.
\*   321  x = A.new_zeros(...)
\*   331-338  every assignment to x inside the loop is commented out
\*   340  y = einsum(x, C[i]);  341-342  last_state = x at the last step
\*   345  out = y + u * D;  346-347  out = out * F.silu(z) when z is given
selective_scan_ref(toks, P) ==
    LET x == 0
    IN  [y |-> [i \in 1..Len(toks) |-> Emit(toks[i], P, x)],
         last_state |-> x]

\* lines 250-262: the scan call of forward; z is passed only without rmsnorm
ForwardScan(toks, A_log, rmsnorm, chunk_size) ==
    mamba_chunk_scan_fused(toks, ScanParams(A_log, rmsnorm), chunk_size, 0)

----------------------------------------------------------------------------
(* SpecScan: the two stages applied to bounded streams.                    *)

Streams(S) == UNION {[1..n -> S] : n \in 1..MaxLen}

Tokens == [x : UVals, dt : DtVals, B : {1}, C : CVals, z : {2}]

ConvInputs ==
    {[kind |-> "conv", xa |-> xa, xb |-> xb, weight |-> w, bias |-> b,
      d_conv |-> Len(w)] :
        xa \in Streams(XVals), xb \in Streams(XVals),
        w \in UNION {[1..k -> WeightVals] : k \in ConvWidths}, b \in BiasVals}

ScanInputs ==
    {[kind |-> "scan", toks |-> t, A_log |-> al, rmsnorm |-> r] :
        t \in Streams(Tokens), al \in ALogs, r \in BOOLEAN}

DiscretizeInputs ==
    {[kind |-> "discretize", tok |-> t, A_log |-> al, rmsnorm |-> r] :
        t \in Tokens, al \in ALogRange, r \in BOOLEAN}

InitScan ==
    /\ args = NoArgs
    /\ mixer = Unbuilt
    /\ env \in [sequence_parallel : {FALSE}, has_causal_conv1d : BOOLEAN]
    /\ kv = NoKv
    /\ call = Idle
    /\ coll = <<>>
    /\ inp \in {i \in ConvInputs : Len(i.xa) = Len(i.xb)} \cup ScanInputs
                \cup DiscretizeInputs
    /\ res = NoRes

\* the convolution stage of forward on the two streams xa and xb
RunConv ==
    /\ inp.kind = "conv"
    /\ res' = [kind |-> "conv",
               ya |-> ConvStage(env, inp.xa, inp.weight, inp.bias, inp.d_conv),
               yb |-> ConvStage(env, inp.xb, inp.weight, inp.bias, inp.d_conv)]
    /\ UNCHANGED <<args, mixer, env, kv, call, coll, inp>>

\* the scan of forward with chunk_size, beside the scan of the same streams
\* as a single chunk and selective_scan_ref on the same streams and
\* parameters; the result also records where the gate is applied (and
\* where step applies it under the same configuration), the A of line 200,
\* and every token's shift and state
RunScan ==
    /\ inp.kind = "scan"
    /\ \E chunk_size \in 1..MaxLen :
          res' = [kind |-> "scan", chunk_size |-> chunk_size,
                  chunked |-> ForwardScan(inp.toks, inp.A_log, inp.rmsnorm, chunk_size),
                  single |-> ForwardScan(inp.toks, inp.A_log, inp.rmsnorm,
                                         Len(inp.toks)),
                  ref |-> selective_scan_ref(inp.toks,
                                             ScanParams(inp.A_log, inp.rmsnorm)),
                  gating |-> ChunkedGating(inp.rmsnorm),
                  step_gating |-> StepGating(inp.rmsnorm),
                  A |-> A_of(inp.A_log),
                  transitions |-> [j \in 1..Len(inp.toks) |->
                                     Transition(inp.toks[j],
                                                ScanParams(inp.A_log, inp.rmsnorm))],
                  shifts |-> [j \in 1..Len(inp.toks) |->
                                Shift(inp.toks[j],
                                      ScanParams(inp.A_log, inp.rmsnorm))],
                  states |-> [j \in 1..Len(inp.toks) |->
                                ChunkState(inp.toks,
                                           ScanParams(inp.A_log, inp.rmsnorm),
                                           0, j)]]
    /\ UNCHANGED <<args, mixer, env, kv, call, coll, inp>>

\* line 200 (393 in step) and the discretization of one token: A from
\* A_log, and the transition exp(dt_eff * A) of the token
RunDiscretize ==
    /\ inp.kind = "discretize"
    /\ res' = [kind |-> "discretize",
               A |-> A_of(inp.A_log),
               dt_eff |-> dt_eff(inp.tok, ScanParams(inp.A_log, inp.rmsnorm)),
               transition |-> Transition(inp.tok,
                                         ScanParams(inp.A_log, inp.rmsnorm))]
    /\ UNCHANGED <<args, mixer, env, kv, call, coll, inp>>

NextScan == RunConv \/ RunScan \/ RunDiscretize

SpecScan == InitScan /\ [][NextScan]_vars

\* C9: the chunked scan's per-token outputs and final state are those of the
\* same sequence run as one chunk, whatever the chunk size.
C9_ChunkSizeIndependent ==
    res.kind = "scan" =>
        /\ res.chunked.y = res.single.y
        /\ res.chunked.final = res.single.final

\* C9 witness: three tokens scanned in chunks of two (a full chunk and a
\* shorter one), with a non-zero state carried between them.
C9_Witness ==
    /\ res.kind = "scan"
    /\ Len(inp.toks) = 3
    /\ res.chunk_size = 2
    /\ res.chunked.final # 0
    /\ res.chunked.y[3] # Emit(inp.toks[3],
                               [A |-> A_of(inp.A_log), D |-> 1, dt_bias |-> 0,
                                gate |-> ~inp.rmsnorm],
                               Inject(inp.toks[3],
                                      [A |-> A_of(inp.A_log), D |-> 1,
                                       dt_bias |-> 0, gate |-> ~inp.rmsnorm]))

\* C10: the convolution stage is causal on both paths: two streams that agree
\* at every position <= t have equal convolution outputs at position t.
C10_ConvCausal ==
    res.kind = "conv" =>
        \A t \in 1..Len(inp.xa) :
            (\A s \in 1..t : inp.xa[s] = inp.xb[s]) => res.ya[t] = res.yb[t]

\* C10 witness: on the reference path, two streams that agree up to t and
\* differ after it, with outputs that differ after t.
C10_Witness ==
    /\ res.kind = "conv"
    /\ ~env.has_causal_conv1d
    /\ \E t \in 1..(Len(inp.xa) - 1) :
          /\ \A s \in 1..t : inp.xa[s] = inp.xb[s]
          /\ inp.xa[t] = 1
          /\ inp.xa[t + 1] # inp.xb[t + 1]
          /\ res.ya[t + 1] # res.yb[t + 1]

RECURSIVE Recurrence(_, _, _)
\* state_t = exp(delta_t * A) * state_(t-1) + delta_t * B_t * u_t, state_0 = 0
Recurrence(toks, P, t) ==
    IF t = 0 THEN 0
    ELSE Decay(Recurrence(toks, P, t - 1), Shift(toks[t], P)) + Inject(toks[t], P)

\* C24: selective_scan_ref computes the sequential recurrence from a zero
\* state: every output is y_t = C_t . state_t + D * u_t (times SiLU(z_t) when
\* z is given), and the returned last state is the state after the final
\* step.
C24_ReferenceScanRecurrence ==
    res.kind = "scan" =>
        LET P == ScanParams(inp.A_log, inp.rmsnorm)
        IN  /\ \A t \in 1..Len(inp.toks) :
                  res.ref.y[t] = Emit(inp.toks[t], P, Recurrence(inp.toks, P, t))
            /\ res.ref.last_state = Recurrence(inp.toks, P, Len(inp.toks))

\* How many times a path applies the gate z to the scan output
GateCount(g) == (IF g.scan_gate THEN 1 ELSE 0) + (IF g.norm THEN 1 ELSE 0)

\* C16: the gate z modulates the scan output exactly once in every mode: with
\* rmsnorm the scan gets no gate and the gated norm is applied, without it the
\* scan multiplies by SiLU(z) and no norm is applied; and the stepwise path
\* makes the same choice as the chunked path for the same configuration.
C16_GateOnce ==
    res.kind = "scan" =>
        /\ GateCount(res.gating) = 1
        /\ res.gating.norm = inp.rmsnorm
        /\ res.gating.scan_gate = ~inp.rmsnorm
        /\ res.step_gating = res.gating

Abs(v) == IF v < 0 THEN 0 - v ELSE v

\* a float32 below zero: the sign bit set on a value that is not a zero
StrictlyNegative(A) == A.neg /\ A.mag.cls # "zero"

\* a float32 that is not above zero: the sign bit set, or a zero
NotPositive(A) == A.neg \/ A.mag.cls = "zero"

\* a transition in (0, 1]: 1.0, a power of two 2^e with e <= 0, or a value
\* below 2^(e + 1) with e + 1 <= 0
InHalfOpenUnit(T) ==
    \/ T.cls = "one"
    \/ T.cls = "pow2" /\ T.e <= 0
    \/ T.cls = "frac" /\ T.e < 0

\* a transition in [0, 1]
InClosedUnit(T) == T.cls = "zero" \/ InHalfOpenUnit(T)

\* C17, as stated: A = -exp(A_log) is strictly negative for every finite
\* A_log, and for every token (dt_eff > 0) the transition exp(dt_eff * A) lies
\* in (0, 1].
C17_StrictlyNegativeHalfOpen ==
    /\ res.kind = "discretize" =>
          /\ StrictlyNegative(res.A)
          /\ res.dt_eff > 0 => InHalfOpenUnit(res.transition)
    /\ res.kind = "scan" =>
          /\ StrictlyNegative(res.A)
          /\ \A j \in 1..Len(inp.toks) : InHalfOpenUnit(res.transitions[j])

\* C17, amended: A = -exp(A_log) is never positive for a finite A_log: it is
\* strictly negative unless exp(A_log) underflows float32, and -0.0 then; for
\* every token (dt_eff > 0) the transition exp(dt_eff * A) lies in [0, 1], 0.0
\* only when A is -inf or the exponential underflows; and the state carried
\* through a transition of the scan does not grow in magnitude.
C17_TransitionContracts ==
    /\ res.kind = "discretize" =>
          /\ NotPositive(res.A)
          /\ StrictlyNegative(res.A) <=> inp.A_log >= FloatMinExp - 1
          /\ res.dt_eff > 0
          /\ InClosedUnit(res.transition)
          /\ res.transition.cls = "zero" =>
                \/ res.A.mag.cls = "inf"
                \/ res.A.mag.cls = "pow2" /\ res.A.mag.e >= 0
    /\ res.kind = "scan" =>
          /\ StrictlyNegative(res.A)
          /\ \A j \in 1..Len(inp.toks) :
                /\ dt_eff(inp.toks[j], ScanParams(inp.A_log, inp.rmsnorm)) > 0
                /\ InClosedUnit(res.transitions[j])
                /\ res.shifts[j] >= 0
                /\ LET prev == IF j = 1 THEN 0 ELSE res.states[j - 1]
                   IN  Abs(Decay(prev, res.shifts[j])) <= Abs(prev)

\* C17 witness: an A_log below the underflow of exp: A is -0.0, not strictly
\* negative, and the transition is 1.0.
C17_Witness ==
    /\ res.kind = "discretize"
    /\ inp.A_log < FloatMinExp - 1
    /\ res.A = [neg |-> TRUE, mag |-> [cls |-> "zero"]]
    /\ res.transition = [cls |-> "one"]

----------------------------------------------------------------------------
(* tools/checkpoint/loader_llama2.py: load_checkpoint and the messages it  *)
(* puts on the queue.  inp holds the run's inputs, res the run's position  *)
(* and the queue.  A message is a record; the plain strings "done" and     *)
(* "exit" are records with that name, f"transformer layer {layer_num}" is  *)
(* the name with the number.                                               *)

MaxLayers == 2

\* line 432: queue.put(md)
MsgMetadata == [name |-> "metadata"]

\* lines 434-437: queue_put(name, msg) sets msg["name"] = name
Msg(name) == [name |-> name]

\* line 512: queue_put(f"transformer layer {layer_num}", message)
MsgLayer(layer_num) == [name |-> "transformer layer", num |-> layer_num]

\* A faulty variant of OutputLayerSent, for comparison: the output layer is
\* sent whether or not it is untied
OutputLayerSent_Always(cfg) == TRUE

\* line 520: if md.output_layer (margs.untie_embeddings_and_output_weights)
OutputLayerSent(cfg) == cfg.output_layer

LoaderInputs ==
    [kind : {"loader"}, num_layers : 0..MaxLayers, output_layer : BOOLEAN,
     import_ok : BOOLEAN, args_ok : BOOLEAN]

\* load_checkpoint(queue, args) has been called (line 533) on an empty queue
InitLoader ==
    /\ args = NoArgs
    /\ mixer = Unbuilt
    /\ env = NoEnv
    /\ kv = NoKv
    /\ call = Idle
    /\ coll = <<>>
    /\ inp \in LoaderInputs
    /\ res = [kind |-> "loader", pc |-> "import", layer_num |-> 0, queue |-> <<>>]

\* lines 267-278: the imports; on ModuleNotFoundError queue.put("exit") and
\* exit(1), which raises SystemExit
LoaderImport ==
    /\ res.kind = "loader" /\ res.pc = "import"
    /\ res' = IF inp.import_ok
              THEN [res EXCEPT !.pc = "check_args"]
              ELSE [res EXCEPT !.pc = "raised",
                               !.queue = Append(@, Msg("exit"))]
    /\ UNCHANGED <<args, mixer, env, kv, call, coll, inp>>

\* lines 280-331: the arguments; check_for_arg (308-316) on a missing
\* argument without default does queue.put("exit") and exit(1)
LoaderCheckArgs ==
    /\ res.kind = "loader" /\ res.pc = "check_args"
    /\ res' = IF inp.args_ok
              THEN [res EXCEPT !.pc = "metadata"]
              ELSE [res EXCEPT !.pc = "raised",
                               !.queue = Append(@, Msg("exit"))]
    /\ UNCHANGED <<args, mixer, env, kv, call, coll, inp>>

\* lines 333-432: the models are built and loaded, then queue.put(md)
LoaderPutMetadata ==
    /\ res.kind = "loader" /\ res.pc = "metadata"
    /\ res' = [res EXCEPT !.pc = "embeddings",
                          !.queue = Append(@, MsgMetadata)]
    /\ UNCHANGED <<args, mixer, env, kv, call, coll, inp>>

\* lines 449-460: queue_put("embeddings", message); then the loop of line 462
LoaderPutEmbeddings ==
    /\ res.kind = "loader" /\ res.pc = "embeddings"
    /\ res' = [res EXCEPT !.pc = IF inp.num_layers > 0 THEN "layers"
                                 ELSE "final_norm",
                          !.layer_num = 0,
                          !.queue = Append(@, Msg("embeddings"))]
    /\ UNCHANGED <<args, mixer, env, kv, call, coll, inp>>

\* lines 462-512: one iteration of for layer_num in range(margs.num_layers)
LoaderPutLayer ==
    /\ res.kind = "loader" /\ res.pc = "layers"
    /\ res' = [res EXCEPT !.pc = IF res.layer_num + 1 < inp.num_layers
                                 THEN "layers" ELSE "final_norm",
                          !.layer_num = @ + 1,
                          !.queue = Append(@, MsgLayer(res.layer_num))]
    /\ UNCHANGED <<args, mixer, env, kv, call, coll, inp>>

\* lines 514-518: queue_put("final norm", message)
LoaderPutFinalNorm ==
    /\ res.kind = "loader" /\ res.pc = "final_norm"
    /\ res' = [res EXCEPT !.pc = IF OutputLayerSent(inp) THEN "output_layer"
                                 ELSE "done",
                          !.queue = Append(@, Msg("final norm"))]
    /\ UNCHANGED <<args, mixer, env, kv, call, coll, inp>>

\* lines 520-526: queue_put("output layer", message)
LoaderPutOutputLayer ==
    /\ res.kind = "loader" /\ res.pc = "output_layer"
    /\ res' = [res EXCEPT !.pc = "done",
                          !.queue = Append(@, Msg("output layer"))]
    /\ UNCHANGED <<args, mixer, env, kv, call, coll, inp>>

\* line 530: queue.put("done"), and _load_checkpoint returns
LoaderPutDone ==
    /\ res.kind = "loader" /\ res.pc = "done"
    /\ res' = [res EXCEPT !.pc = "returned",
                          !.queue = Append(@, Msg("done"))]
    /\ UNCHANGED <<args, mixer, env, kv, call, coll, inp>>

\* Any statement of _load_checkpoint raises (a missing file, a failed
\* assertion, a missing tensor) before the next message is put.
LoaderRaise ==
    /\ res.kind = "loader"
    /\ res.pc \in {"import", "check_args", "metadata", "embeddings", "layers",
                   "final_norm", "output_layer"}
    /\ res' = [res EXCEPT !.pc = "raised"]
    /\ UNCHANGED <<args, mixer, env, kv, call, coll, inp>>

\* lines 534-538: the bare except of load_checkpoint, which also catches the
\* SystemExit of exit(1): queue.put("exit") and raise
LoaderHandler ==
    /\ res.kind = "loader" /\ res.pc = "raised"
    /\ res' = [res EXCEPT !.pc = "failed",
                          !.queue = Append(@, Msg("exit"))]
    /\ UNCHANGED <<args, mixer, env, kv, call, coll, inp>>

NextLoader ==
    \/ LoaderImport \/ LoaderCheckArgs \/ LoaderPutMetadata
    \/ LoaderPutEmbeddings \/ LoaderPutLayer \/ LoaderPutFinalNorm
    \/ LoaderPutOutputLayer \/ LoaderPutDone \/ LoaderRaise \/ LoaderHandler

SpecLoader == InitLoader /\ [][NextLoader]_vars

\* C27: on a successful run the queue holds, in this order, the metadata,
\* "embeddings", "transformer layer 0" .. "transformer layer N-1", "final
\* norm", "output layer" exactly when the output layer is untied, and "done";
\* and in no state is anything on the queue after "done".
C27_MessageOrder ==
    res.kind = "loader" =>
        /\ res.pc = "returned" =>
              res.queue = <<MsgMetadata, Msg("embeddings")>>
                          \o [n \in 1..inp.num_layers |-> MsgLayer(n - 1)]
                          \o <<Msg("final norm")>>
                          \o (IF inp.output_layer THEN <<Msg("output layer")>>
                              ELSE <<>>)
                          \o <<Msg("done")>>
        /\ \A i \in 1..Len(res.queue) :
              res.queue[i] = Msg("done") => i = Len(res.queue)

\* C27 witness: a returned run with two layers and a tied output layer.
C27_Witness ==
    /\ res.kind = "loader"
    /\ res.pc = "returned"
    /\ inp.num_layers = 2
    /\ ~inp.output_layer
    /\ Len(res.queue) = 6

\* The terminal messages on the queue
Terminals(q) == {i \in 1..Len(q) : q[i] \in {Msg("done"), Msg("exit")}}

\* C28: when load_checkpoint has finished, the queue holds exactly one
\* terminal message, as its last message: "done" if loading succeeded,
\* "exit" if it failed at any point.
C28_OneTerminalMessage ==
    (res.kind = "loader" /\ res.pc \in {"returned", "failed"}) =>
        /\ Terminals(res.queue) = {Len(res.queue)}
        /\ res.queue[Len(res.queue)]
             = IF res.pc = "returned" THEN Msg("done") ELSE Msg("exit")

----------------------------------------------------------------------------
(* tools/bert_embedding/embed.py: DiskDataParallelBertEmbedder             *)
(* .embed_text_dataset run by every rank of the world.  inp holds each     *)
(* rank's missing-block list; res holds each rank's position, the number   *)
(* of barriers it has entered and the block files written.  A list entry   *)
(* is None or a block_info, named by its position in the rank's list.      *)

MaxBlocks == 2

EmbedRanks == {1, 2}

BlockInfo == 1

\* The lists get_missing_blocks_by_rank returns to the ranks: each rank's
\* blocks, extended with None so that all lists have one length.
MissingLists ==
    UNION {[EmbedRanks -> [1..n -> {None, BlockInfo}]] : n \in 0..MaxBlocks}

\* A faulty variant of BarrierAfterBlock, for comparison: the barrier is
\* inside the branch that skips the None entries
BarrierAfterBlock_InsideIf(block_info) == block_info # None

\* lines 283-309: torch.distributed.barrier() is a statement of the loop
\* body after the `if block_info is not None` block, run for every entry
BarrierAfterBlock(block_info) == TRUE

\* lines 287, 304-306: a block file is written for the entries that are not
\* None
BlockWritten(block_info) == block_info # None

InitEmbed ==
    /\ args = NoArgs
    /\ mixer = Unbuilt
    /\ env = NoEnv
    /\ kv = NoKv
    /\ call = Idle
    /\ coll = <<>>
    /\ \E lists \in MissingLists : inp = [kind |-> "embed", lists |-> lists]
    /\ res = [kind |-> "embed",
              pc |-> [r \in EmbedRanks |-> "start"],
              idx |-> [r \in EmbedRanks |-> 0],
              barriers |-> [r \in EmbedRanks |-> 0],
              determined |-> [r \in EmbedRanks |-> FALSE],
              written |-> {}]

\* The position of rank r after the statement at list position i (0: before
\* the loop): the next loop iteration, or the end of the call.
AfterEntry(r, i) == IF i < Len(inp.lists[r]) THEN "block" ELSE "done"

\* lines 315-327: rank r makes the workdir, gets its missing-block list and
\* enters the barrier of line 327
EmbedGetMissing(r) ==
    /\ res.kind = "embed" /\ res.pc[r] = "start"
    /\ res' = [res EXCEPT !.pc[r] = "barrier",
                          !.determined[r] = TRUE,
                          !.barriers[r] = @ + 1]
    /\ UNCHANGED <<args, mixer, env, kv, call, coll, inp>>

\* torch.distributed.barrier() returns on rank r once every rank has entered
\* as many barriers as r has
EmbedBarrierReturn(r) ==
    /\ res.kind = "embed" /\ res.pc[r] = "barrier"
    /\ \A q \in EmbedRanks : res.barriers[q] >= res.barriers[r]
    /\ res' = [res EXCEPT !.pc[r] = AfterEntry(r, res.idx[r])]
    /\ UNCHANGED <<args, mixer, env, kv, call, coll, inp>>

\* lines 283-309: one iteration of the loop of embed_text_blocks on rank r:
\* the block is embedded and its file written unless the entry is None, then
\* the rank enters the barrier of line 309
EmbedBlock(r) ==
    /\ res.kind = "embed" /\ res.pc[r] = "block"
    /\ LET i == res.idx[r] + 1
           block_info == inp.lists[r][i]
       IN  res' = [res EXCEPT
                     !.idx[r] = i,
                     !.written = IF BlockWritten(block_info)
                                 THEN @ \cup {<<r, i>>} ELSE @,
                     !.barriers[r] = IF BarrierAfterBlock(block_info)
                                     THEN @ + 1 ELSE @,
                     !.pc[r] = IF BarrierAfterBlock(block_info)
                               THEN "barrier" ELSE AfterEntry(r, i)]
    /\ UNCHANGED <<args, mixer, env, kv, call, coll, inp>>

NextEmbed ==
    \E r \in EmbedRanks :
        EmbedGetMissing(r) \/ EmbedBarrierReturn(r) \/ EmbedBlock(r)

\* Every rank is a running process: a rank that can take a step takes one.
SpecEmbed == InitEmbed /\ [][NextEmbed]_vars /\ WF_vars(NextEmbed)

EmbedAllDone == res.kind = "embed" /\ \A r \in EmbedRanks : res.pc[r] = "done"

\* While the call runs: a rank that has finished has entered one barrier
\* plus one per entry of its list, as many as every other finished rank;
\* and no block file exists before every rank has its missing-block list.
EmbedSafe ==
    res.kind = "embed" =>
        /\ \A r \in EmbedRanks :
              res.pc[r] = "done" => res.barriers[r] = 1 + Len(inp.lists[r])
        /\ \A r, q \in EmbedRanks :
              (res.pc[r] = "done" /\ res.pc[q] = "done")
                  => res.barriers[r] = res.barriers[q]
        /\ res.written # {} => \A r \in EmbedRanks : res.determined[r]

\* C29: every rank executes the same number of barriers, one after getting
\* its missing-block list and one per entry of the list, None entries
\* included; so with lists of equal length every rank finishes (none waits
\* forever at a barrier), and no block file is written before all ranks have
\* their lists.
C29_BarriersMatch == []EmbedSafe /\ <>EmbedAllDone

\* C29 witness: both ranks have finished; rank 1's list ends with a None
\* where rank 2's holds a block, and rank 2 has written that block's file.
C29_Witness ==
    /\ EmbedAllDone
    /\ Len(inp.lists[1]) = 2
    /\ inp.lists[1][2] = None
    /\ inp.lists[2][2] = BlockInfo
    /\ <<2, 2>> \in res.written
    /\ res.barriers[1] = 3

----------------------------------------------------------------------------
(* tools/retro/pretraining/retro_dataset.py: get_legal_seq_idxs on the     *)
(* neighbor files of a directory.  A file "<start>-<end>.hdf5" is the pair *)
(* of its two digit strings; inp holds the directory's files and           *)
(* n_chunks_per_seq, res the outcome of the call.                          *)

MaxChunk == 4

\* The digit strings that name a chunk index up to MaxChunk, with or without
\* a padding zero.
DigitStrings == {<<d>> : d \in 0..MaxChunk} \cup {<<0, d>> : d \in 0..MaxChunk}

NbrPaths == [start : DigitStrings, end : DigitStrings]

NChunksPerSeq == {1, 2}

RECURSIVE IntOf(_)
\* int(s) for a string s of decimal digits
IntOf(ds) ==
    IF Len(ds) = 0 THEN 0
    ELSE 10 * IntOf(SubSeq(ds, 1, Len(ds) - 1)) + ds[Len(ds)]

\* lines 211-214: path_to_chunk_idxs(path): the stem of the basename split
\* at "-", each part through int()
path_to_chunk_idxs(path) == <<IntOf(path.start), IntOf(path.end)>>

\* The characters of the file name as code points: "-" is 45, "0" is 48
PathString(path) ==
    [k \in 1..Len(path.start) |-> 48 + path.start[k]]
    \o <<45>>
    \o [k \in 1..Len(path.end) |-> 48 + path.end[k]]

RECURSIVE StrLess(_, _)
\* a < b for two strings, as Python compares them
StrLess(a, b) ==
    IF Len(b) = 0 THEN FALSE
    ELSE IF Len(a) = 0 THEN TRUE
    ELSE IF a[1] # b[1] THEN a[1] < b[1]
    ELSE StrLess(Tail(a), Tail(b))

RECURSIVE SortedPaths(_)
\* line 235: sorted(glob.glob(nbr_dir + "/*.hdf5"))
SortedPaths(S) ==
    IF S = {} THEN <<>>
    ELSE LET first == CHOOSE p \in S :
                          \A o \in S \ {p} : StrLess(PathString(p), PathString(o))
         IN  <<first>> \o SortedPaths(S \ {first})

RECURSIVE SortedInts(_)
\* sorted(...) of a list of distinct integers
SortedInts(S) ==
    IF S = {} THEN <<>>
    ELSE LET first == CHOOSE v \in S : \A o \in S : v <= o
         IN  <<first>> \o SortedInts(S \ {first})

\* line 244: seq_chunk_count_map[seq_idx] += 1 on a defaultdict(lambda : 0)
Incr(map, seq_idx) ==
    IF seq_idx \in DOMAIN map
    THEN [map EXCEPT ![seq_idx] = @ + 1]
    ELSE [k \in DOMAIN map \cup {seq_idx} |->
            IF k = seq_idx THEN 1 ELSE map[k]]

RECURSIVE CountRange(_, _, _, _)
\* lines 242-244: for chunk_idx in range(chunk_start_idx, chunk_end_idx)
CountRange(map, chunk_idx, chunk_end_idx, n_chunks_per_seq) ==
    IF chunk_idx >= chunk_end_idx THEN map
    ELSE CountRange(Incr(map, chunk_idx \div n_chunks_per_seq),
                    chunk_idx + 1, chunk_end_idx, n_chunks_per_seq)

RECURSIVE CountPaths(_, _, _, _)
\* lines 238-244: for nbr_path_index, nbr_path in enumerate(nbr_paths)
CountPaths(map, nbr_paths, nbr_path_index, n_chunks_per_seq) ==
    IF nbr_path_index > Len(nbr_paths) THEN map
    ELSE LET idxs == path_to_chunk_idxs(nbr_paths[nbr_path_index])
         IN  CountPaths(CountRange(map, idxs[1], idxs[2], n_chunks_per_seq),
                        nbr_paths, nbr_path_index + 1, n_chunks_per_seq)

\* A faulty variant of LegalCount, for comparison: a sequence counted more
\* than n_chunks_per_seq times passes
LegalCount_AtLeast(chunk_count, n_chunks_per_seq) ==
    chunk_count >= n_chunks_per_seq

\* line 250: if chunk_count == n_chunks_per_seq
LegalCount(chunk_count, n_chunks_per_seq) == chunk_count = n_chunks_per_seq

\* lines 231-260: get_legal_seq_idxs(nbr_dir), for the files of nbr_dir and
\* n_chunks_per_seq.  pax_called tells whether line 253 found a counted
\* sequence that is not legal and called pax.
get_legal_seq_idxs(paths, n_chunks_per_seq) ==
    LET nbr_paths == SortedPaths(paths)
        seq_chunk_count_map == CountPaths(<<>>, nbr_paths, 1, n_chunks_per_seq)
        legal_seq_idxs ==
            SortedInts({seq_idx \in DOMAIN seq_chunk_count_map :
                          LegalCount(seq_chunk_count_map[seq_idx],
                                     n_chunks_per_seq)})
    IN  [legal_seq_idxs |-> legal_seq_idxs,
         pax_called |-> Cardinality(DOMAIN seq_chunk_count_map)
                          # Len(legal_seq_idxs)]

InitLegal ==
    /\ args = NoArgs
    /\ mixer = Unbuilt
    /\ env = NoEnv
    /\ kv = NoKv
    /\ call = Idle
    /\ coll = <<>>
    /\ \E p, q \in NbrPaths, both \in BOOLEAN, none \in BOOLEAN,
          n \in NChunksPerSeq :
            inp = [kind |-> "legal",
                   paths |-> IF none THEN {} ELSE IF both THEN {p, q} ELSE {p},
                   n_chunks_per_seq |-> n]
    /\ res = NoRes

\* The call get_legal_seq_idxs(nbr_dir).  pax (the lutil package) prints its
\* argument and either ends the process or returns.
RunLegalSeqIdxs ==
    /\ inp.kind = "legal" /\ res = NoRes
    /\ \E pax_returns \in BOOLEAN :
          LET r == get_legal_seq_idxs(inp.paths, inp.n_chunks_per_seq)
          IN  res' = [kind |-> "legal",
                      returned |-> ~r.pax_called \/ pax_returns,
                      pax_called |-> r.pax_called,
                      legal_seq_idxs |-> IF ~r.pax_called \/ pax_returns
                                         THEN r.legal_seq_idxs ELSE <<>>]
    /\ UNCHANGED <<args, mixer, env, kv, call, coll, inp>>

NextLegal == RunLegalSeqIdxs

SpecLegal == InitLegal /\ [][NextLegal]_vars

\* How many times the ranges [start, end) of the files count a chunk of
\* sequence seq_idx
Coverage(paths, n_chunks_per_seq, seq_idx) ==
    Cardinality({pc \in paths \X (0..MaxChunk) :
                   /\ path_to_chunk_idxs(pc[1])[1] <= pc[2]
                   /\ pc[2] < path_to_chunk_idxs(pc[1])[2]
                   /\ pc[2] \div n_chunks_per_seq = seq_idx})

\* C30: what get_legal_seq_idxs returns is strictly increasing (so without
\* duplicates) and holds exactly the sequence indices whose chunks the
\* files' ranges count n_chunks_per_seq times in total.
C30_LegalSeqIdxs ==
    (res.kind = "legal" /\ res.returned) =>
        /\ \A i, j \in 1..Len(res.legal_seq_idxs) :
              i < j => res.legal_seq_idxs[i] < res.legal_seq_idxs[j]
        /\ {res.legal_seq_idxs[i] : i \in 1..Len(res.legal_seq_idxs)}
             = {seq_idx \in 0..MaxChunk :
                  Coverage(inp.paths, inp.n_chunks_per_seq, seq_idx)
                    = inp.n_chunks_per_seq}

\* C30 witness: two files with overlapping ranges and two chunks per
\* sequence: one sequence counted twice is returned, one counted three times
\* is not.
C30_Witness ==
    /\ res.kind = "legal" /\ res.returned
    /\ inp.n_chunks_per_seq = 2
    /\ Cardinality(inp.paths) = 2
    /\ Len(res.legal_seq_idxs) = 1
    /\ \E seq_idx \in 0..MaxChunk :
          Coverage(inp.paths, inp.n_chunks_per_seq, seq_idx) = 3

====
